---- MODULE Spec2Model ----
(***************************************************************************)
(* Model of OllamaChat: the streaming tag segmenter (processStreamContent   *)
(* and the stream handlers of sendMessage), the function-call extractor    *)
(* with its XML-entity codec, and the terminal operations with the         *)
(* registry of background processes.                                       *)
(*                                                                         *)
(* Text is a sequence of one-character strings, so that markers can be     *)
(* split at any character.  The variable `sinks` is the projection of      *)
(* stdout onto the writes made through formatLLMResponse (plain sink),     *)
(* formatLLMThinkingInline (thinking sink), formatFunctionCall             *)
(* (function-call display) and the Colors.RESET end-of-block writes.       *)
(***************************************************************************)
EXTENDS Integers, Sequences, FiniteSets, TLC

VARIABLES streamState, sinks, assistantResponse, chunks, upstream, stackOverflow,
          functionCalls, codec,
          backgroundProcesses, nextProcessId, children, lastPoll, fault,
          conversationHistory, dispatches, timers, requests, prompts,
          fileSystem, fileResult,
          currentInput, cursorPos, isPasting, pasteBuffer, pasteTimeout,
          lastKeypressTime

\* the segmenter, the turn's response and the calls extracted from it
segVars == <<streamState, sinks, assistantResponse, chunks, upstream,
             stackOverflow, functionCalls>>
\* the background process registry, the spawned child processes with the
\* result of their runInTerminal promise, and the text getTerminalOutput
\* returned in this step (Null when the step is not a get_terminal_output),
\* and whether an exception was left uncaught (the program has ended)
regVars == <<backgroundProcesses, nextProcessId, children, lastPoll, fault>>

\* the conversation, the processFunctionCalls runs (one per response that
\* carried a finish_reason), the follow-up timers that are pending, and
\* the requests sent to the model
turnVars == <<conversationHistory, dispatches, timers, requests, prompts>>

\* the files and directories below the working directory, and what the
\* last file tool call returned
fsVars == <<fileSystem, fileResult>>

\* the input line and the paste detection of handleKeypress
keyVars == <<currentInput, cursorPos, isPasting, pasteBuffer, pasteTimeout,
             lastKeypressTime>>

vars == <<streamState, sinks, assistantResponse, chunks, upstream, stackOverflow,
          functionCalls, codec,
          backgroundProcesses, nextProcessId, children, lastPoll, fault,
          conversationHistory, dispatches, timers, requests, prompts,
          fileSystem, fileResult,
          currentInput, cursorPos, isPasting, pasteBuffer, pasteTimeout,
          lastKeypressTime>>

(***************************************************************************)
(* Bounds                                                                  *)
(***************************************************************************)
\* number of content chunks the transport delivers in one turn
MaxChunks == 3
\* call-stack depth at which the recursion of processStreamContent throws
MaxDepth == 3

(***************************************************************************)
(* Markers and the chunks the transport may deliver                        *)
(***************************************************************************)
OpenThink == <<"<","t","h","i","n","k",">">>
CloseThink == <<"<","/","t","h","i","n","k",">">>
OpenFC == <<"<","f","u","n","c","t","i","o","n","_","c","a","l","l","s",">">>
CloseFC == <<"<","/","f","u","n","c","t","i","o","n","_","c","a","l","l","s",">">>

\* chunks in which every marker is whole
WholeThinkChunks ==
  { <<"a">>,
    OpenThink,
    CloseThink,
    OpenThink \o <<"H","e","l">>,
    <<"l","o">> \o CloseThink \o <<"W","o","r","l","d">> }

WholeFCChunks ==
  { OpenFC,
    CloseFC,
    OpenFC \o <<"x">> \o CloseFC }

\* chunks that end or begin inside a marker
SplitChunks ==
  { SubSeq(OpenThink, 1, 4),    \* "<thi"
    SubSeq(CloseThink, 1, 5),   \* "</thi"
    SubSeq(OpenThink, 5, 7),    \* "nk>"
    SubSeq(OpenFC, 1, 10),      \* "<function_"
    SubSeq(CloseFC, 1, 11),     \* "</function_"
    SubSeq(OpenFC, 11, 16) }    \* "calls>"

Chunks == WholeThinkChunks \cup WholeFCChunks \cup SplitChunks


(***************************************************************************)
(* String helpers (String.prototype.includes / split / slice / join)       *)
(***************************************************************************)
Includes(s, m) ==
  \E i \in 1..(Len(s) - Len(m) + 1) : SubSeq(s, i, i + Len(m) - 1) = m

IndexOf(s, m) ==
  CHOOSE i \in 1..(Len(s) - Len(m) + 1) :
    /\ SubSeq(s, i, i + Len(m) - 1) = m
    /\ \A j \in 1..(i - 1) : SubSeq(s, j, j + Len(m) - 1) # m

\* s.split(m)[0]
BeforeFirst(s, m) == SubSeq(s, 1, IndexOf(s, m) - 1)

\* s.split(m).slice(1).join(m)
AfterFirst(s, m) == SubSeq(s, IndexOf(s, m) + Len(m), Len(s))

(***************************************************************************)
(* Segmenter state                                                         *)
(***************************************************************************)
Null == [null |-> TRUE]

FreshState ==
  [ isInThinkingTag |-> FALSE,
    thinkingContent |-> <<>>,
    isInFunctionCall |-> FALSE,
    functionCallContent |-> <<>>,
    regularContent |-> <<>> ]

\* one writeToStdout through the formatter of the given sink
Write(sink, text) == [sink |-> sink, text |-> text]

WriteIf(out, sink, text) ==
  IF text # <<>> THEN Append(out, Write(sink, text)) ELSE out

(***************************************************************************)
(* processStreamContent.  s = [st, out, err]: the stream state, the writes *)
(* made so far, and whether the call stack was exhausted (RangeError).     *)
(***************************************************************************)
RECURSIVE processStreamContent(_, _, _)
processStreamContent(s, content, depth) ==
  IF depth > MaxDepth THEN [s EXCEPT !.err = TRUE] ELSE
  LET st0 == IF s.st = Null THEN FreshState ELSE s.st
      rc  == st0.regularContent \o content
      st1 == [st0 EXCEPT !.regularContent = rc]
  IN
  IF ~st1.isInThinkingTag /\ Includes(rc, OpenThink) THEN
    LET beforeThink == BeforeFirst(rc, OpenThink)
        afterThink  == AfterFirst(rc, OpenThink)
        s2 == [ st  |-> [st1 EXCEPT !.isInThinkingTag = TRUE,
                                    !.regularContent = <<>>],
                out |-> WriteIf(s.out, "plain", beforeThink),
                err |-> s.err ]
    IN IF afterThink # <<>>
         THEN processStreamContent(s2, afterThink, depth + 1)
         ELSE s2
  ELSE IF st1.isInThinkingTag THEN
    IF Includes(content, CloseThink) THEN
      LET thinkingPart  == BeforeFirst(content, CloseThink)
          afterThinking == AfterFirst(content, CloseThink)
          out2 == Append(WriteIf(s.out, "thinking", thinkingPart),
                         Write("reset", <<"\n">>))
          st2  == [st1 EXCEPT !.isInThinkingTag = FALSE]
      IN IF afterThinking # <<>>
           THEN processStreamContent(
                  [ st  |-> [st2 EXCEPT !.regularContent = <<>>],
                    out |-> out2, err |-> s.err ],
                  afterThinking, depth + 1)
           ELSE [st |-> st2, out |-> out2, err |-> s.err]
    ELSE [ st |-> st1,
           out |-> Append(s.out, Write("thinking", content)),
           err |-> s.err ]
  ELSE
    LET enter == ~st1.isInFunctionCall /\ Includes(rc, OpenFC)
        out1  == IF enter
                   THEN WriteIf(s.out, "plain", BeforeFirst(rc, OpenFC))
                   ELSE s.out
        st2   == IF enter
                   THEN [st1 EXCEPT
                           !.isInFunctionCall = TRUE,
                           !.functionCallContent = OpenFC \o AfterFirst(rc, OpenFC),
                           !.regularContent = <<>>]
                   ELSE st1
    IN
    IF st2.isInFunctionCall THEN
      LET fcc == st2.functionCallContent \o content IN
      IF Includes(fcc, CloseFC) THEN
        LET functionCallText == BeforeFirst(fcc, CloseFC) \o CloseFC
            remaining == AfterFirst(fcc, CloseFC)
            out2 == out1 \o << Write("reset", <<>>),
                               Write("functionCall", functionCallText) >>
            st3  == [st2 EXCEPT !.isInFunctionCall = FALSE,
                                !.functionCallContent = <<>>,
                                !.regularContent = remaining]
        IN IF remaining # <<>>
             THEN processStreamContent(
                    [ st  |-> [st3 EXCEPT !.regularContent = <<>>],
                      out |-> out2, err |-> s.err ],
                    remaining, depth + 1)
             ELSE [st |-> st3, out |-> out2, err |-> s.err]
      ELSE [ st |-> [st2 EXCEPT !.functionCallContent = fcc],
             out |-> out1, err |-> s.err ]
    ELSE IF /\ st2.regularContent # <<>>
            /\ ~st2.isInThinkingTag
            /\ ~st2.isInFunctionCall THEN
      [ st  |-> [st2 EXCEPT !.regularContent = <<>>],
        out |-> IF /\ ~Includes(st2.regularContent, OpenFC)
                   /\ ~Includes(st2.regularContent, CloseFC)
                  THEN Append(out1, Write("plain", st2.regularContent))
                  ELSE out1,
        err |-> s.err ]
    ELSE [st |-> st2, out |-> out1, err |-> s.err]

(***************************************************************************)
(* XML-entity codec (unescapeXml, validateXmlContent)                      *)
(***************************************************************************)
RECURSIVE ReplaceAll(_, _, _)
\* s.replace(/pat/g, rep): the occurrences of pat, left to right
ReplaceAll(s, pat, rep) ==
  IF Includes(s, pat)
    THEN BeforeFirst(s, pat) \o rep \o ReplaceAll(AfterFirst(s, pat), pat, rep)
    ELSE s

EntLt   == <<"&","l","t",";">>
EntGt   == <<"&","g","t",";">>
EntQuot == <<"&","q","u","o","t",";">>
EntApos == <<"&","a","p","o","s",";">>
Ent39   == <<"&","#","3","9",";">>
EntAmp  == <<"&","a","m","p",";">>

\* amp replaced first instead of last
unescapeXmlAmpFirst(text) ==
  ReplaceAll(
    ReplaceAll(
      ReplaceAll(
        ReplaceAll(
          ReplaceAll(
            ReplaceAll(text, EntAmp, <<"&">>),
            EntLt, <<"<">>),
          EntGt, <<">">>),
        EntQuot, <<"\"">>),
      EntApos, <<"'">>),
    Ent39, <<"'">>)

\* the replacement of &apos; left out
unescapeXmlNoApos(text) ==
  ReplaceAll(
    ReplaceAll(
      ReplaceAll(
        ReplaceAll(
          ReplaceAll(text, EntLt, <<"<">>),
          EntGt, <<">">>),
        EntQuot, <<"\"">>),
      Ent39, <<"'">>),
    EntAmp, <<"&">>)

unescapeXml(text) ==
  ReplaceAll(
    ReplaceAll(
      ReplaceAll(
        ReplaceAll(
          ReplaceAll(
            ReplaceAll(text, EntLt, <<"<">>),
            EntGt, <<">">>),
          EntQuot, <<"\"">>),
        EntApos, <<"'">>),
      Ent39, <<"'">>),
    EntAmp, <<"&">>)

\* TRUE when no warning is printed
validateXmlContent(content) ==
  LET lt  == Includes(content, <<"<">>) /\ ~Includes(content, EntLt)
      gt  == Includes(content, <<">">>) /\ ~Includes(content, EntGt)
      amp == /\ Includes(content, <<"&">>)
             /\ ~\E e \in {EntLt, EntGt, EntAmp, EntQuot, EntApos, Ent39} :
                   Includes(content, e)
  IN ~(lt \/ gt \/ amp)

(***************************************************************************)
(* Function-call extractor.  Inside a block a tag is one element of the    *)
(* text (a string of several characters); everything else is a character.  *)
(***************************************************************************)
InvokeNames == {"run_in_terminal", "get_terminal_output", "list_dir",
                "web_search"}
ParamNames  == {"command", "id", "path", "isBackground", "query"}

InvokeTag(n)  == "<invoke name=\"" \o n \o "\">"
InvokeNoName  == "<invoke>"
InvokeClose   == "</invoke>"
ParamTag(n)   == "<parameter name=\"" \o n \o "\">"
ParamNoName   == "<parameter>"
ParamClose    == "</parameter>"

IsInvokeOpen(x) == x = InvokeNoName \/ \E n \in InvokeNames : x = InvokeTag(n)
IsParamOpen(x)  == x = ParamNoName \/ \E n \in ParamNames : x = ParamTag(n)

\* the attributes ($) that the parser reports for an opening tag
TagAttrs(x) ==
  IF \E n \in InvokeNames : x = InvokeTag(n)
    THEN [hasName |-> TRUE, name |-> CHOOSE n \in InvokeNames : x = InvokeTag(n)]
  ELSE IF \E n \in ParamNames : x = ParamTag(n)
    THEN [hasName |-> TRUE, name |-> CHOOSE n \in ParamNames : x = ParamTag(n)]
  ELSE [hasName |-> FALSE, name |-> ""]

\* the entities a strict XML parser decodes in character data
XmlEntities ==
  { [body |-> Tail(EntLt),   char |-> "<"],
    [body |-> Tail(EntGt),   char |-> ">"],
    [body |-> Tail(EntAmp),  char |-> "&"],
    [body |-> Tail(EntQuot), char |-> "\""],
    [body |-> Tail(EntApos), char |-> "'"],
    [body |-> Tail(Ent39),   char |-> "'"] }

EntityAt(t, i) ==
  { e \in XmlEntities :
      /\ i + Len(e.body) <= Len(t)
      /\ SubSeq(t, i + 1, i + Len(e.body)) = e.body }

\* character data goes to the parameter that is open, if any
AddText(ps, ch) ==
  IF /\ ps.stack # <<>>
     /\ ps.stack[Len(ps.stack)] = [tag |-> "parameter", live |-> TRUE]
    THEN LET k == Len(ps.invokes)
             j == Len(ps.invokes[k].params)
         IN [ps EXCEPT !.invokes[k].params[j].text = @ \o <<ch>>]
    ELSE ps

RECURSIVE ParseXml(_, _, _)
\* parser.parseString of <root>t</root>: the invoke children of the root
\* with their parameter children, or err for a document that is not
\* well formed
ParseXml(t, i, ps) ==
  IF ps.err THEN ps
  ELSE IF i > Len(t) THEN [ps EXCEPT !.err = (ps.stack # <<>>)]
  ELSE
    LET x   == t[i]
        top == IF ps.stack = <<>> THEN [tag |-> "root", live |-> TRUE]
               ELSE ps.stack[Len(ps.stack)]
        pop == [ps EXCEPT !.stack = SubSeq(ps.stack, 1, Len(ps.stack) - 1)]
    IN
    IF IsInvokeOpen(x) THEN
      IF ps.stack = <<>>
        THEN ParseXml(t, i + 1,
               [ps EXCEPT
                  !.stack = Append(@, [tag |-> "invoke", live |-> TRUE]),
                  !.invokes = Append(@, [attrs |-> TagAttrs(x), params |-> <<>>])])
        ELSE ParseXml(t, i + 1,
               [ps EXCEPT !.stack = Append(@, [tag |-> "invoke", live |-> FALSE])])
    ELSE IF IsParamOpen(x) THEN
      IF top = [tag |-> "invoke", live |-> TRUE]
        THEN ParseXml(t, i + 1,
               [ps EXCEPT
                  !.stack = Append(@, [tag |-> "parameter", live |-> TRUE]),
                  !.invokes[Len(ps.invokes)].params =
                     Append(@, [attrs |-> TagAttrs(x), text |-> <<>>])])
        ELSE ParseXml(t, i + 1,
               [ps EXCEPT !.stack = Append(@, [tag |-> "parameter", live |-> FALSE])])
    ELSE IF x = InvokeClose THEN
      IF top.tag = "invoke" THEN ParseXml(t, i + 1, pop)
      ELSE [ps EXCEPT !.err = TRUE]
    ELSE IF x = ParamClose THEN
      IF top.tag = "parameter" THEN ParseXml(t, i + 1, pop)
      ELSE [ps EXCEPT !.err = TRUE]
    ELSE IF x = "<" THEN [ps EXCEPT !.err = TRUE]
    ELSE IF x = "&" THEN
      IF EntityAt(t, i) = {} THEN [ps EXCEPT !.err = TRUE]
      ELSE LET e == CHOOSE e \in EntityAt(t, i) : TRUE
           IN ParseXml(t, i + 1 + Len(e.body), AddText(ps, e.char))
    ELSE ParseXml(t, i + 1, AddText(ps, x))

parseString(xmlContent) ==
  ParseXml(xmlContent, 1, [stack |-> <<>>, invokes |-> <<>>, err |-> FALSE])

\* invoke.parameter is truthy: with explicitArray false a single child
\* without attributes is its text, and the empty text is falsy
HasParameter(invoke) ==
  \/ Len(invoke.params) >= 2
  \/ /\ Len(invoke.params) = 1
     /\ invoke.params[1].attrs.hasName \/ invoke.params[1].text # <<>>

\* the params object built by the loop over invoke.parameter
Parameters(invoke) ==
  LET named == { j \in 1..Len(invoke.params) : invoke.params[j].attrs.hasName }
      last(n) == CHOOSE j \in named :
                   /\ invoke.params[j].attrs.name = n
                   /\ \A k \in named :
                        invoke.params[k].attrs.name = n => k <= j
  IN [ n \in { invoke.params[j].attrs.name : j \in named } |->
         unescapeXml(invoke.params[last(n)].text) ]

RECURSIVE InvokeCalls(_)
InvokeCalls(invokes) ==
  IF invokes = <<>> THEN <<>>
  ELSE LET invoke == Head(invokes)
       IN (IF invoke.attrs.hasName /\ HasParameter(invoke)
             THEN << [name |-> invoke.attrs.name,
                      parameters |-> Parameters(invoke)] >>
             ELSE <<>>)
            \o InvokeCalls(Tail(invokes))

\* variant: the callback does not look at err
BlockCallsIgnoringErr(xmlContent) ==
  InvokeCalls(parseString(xmlContent).invokes)

\* the calls pushed by the callback of parseString for one block
BlockCalls(xmlContent) ==
  LET result == parseString(xmlContent)
  IN IF ~result.err THEN InvokeCalls(result.invokes) ELSE <<>>

RECURSIVE extractFunctionCalls(_)
extractFunctionCalls(text) ==
  IF /\ Includes(text, OpenFC)
     /\ Includes(AfterFirst(text, OpenFC), CloseFC)
    THEN LET a == AfterFirst(text, OpenFC)
         IN BlockCalls(BeforeFirst(a, CloseFC))
              \o extractFunctionCalls(AfterFirst(a, CloseFC))
    ELSE <<>>

(***************************************************************************)
(* Terminal operations: runInTerminal, the events of the child processes,  *)
(* getTerminalOutput, and Ctrl+L.  children[k] is the k-th spawned child:  *)
(* the stdout and stderr collected in the closure of runInTerminal,        *)
(* whether its 'close' event was delivered and with which code, and the    *)
(* value its promise was resolved with (Null while it is pending).         *)
(***************************************************************************)
\* number of child processes spawned
MaxProcs == 2
\* number of 'data' events delivered, over all children
MaxOutput == 1
\* number of times the history is cleared
MaxClears == 1

Commands == { "sleep 5" }
ExitCodes == { 0, 1 }
\* the id parameter of get_terminal_output as the call carries it
PollArgs == { <<"1">>, <<"2">>, <<"1", "x">>, <<"x">> }

Digits == { "0", "1", "2", "3", "4", "5", "6", "7", "8", "9" }
DigitValue(ch) == CHOOSE n \in 0..9 : ch = ToString(n)
\* NaN: no key of the registry
NaN == -1

RECURSIVE LeadingDigits(_)
LeadingDigits(t) ==
  IF t # <<>> /\ Head(t) \in Digits
    THEN <<Head(t)>> \o LeadingDigits(Tail(t))
    ELSE <<>>

RECURSIVE DecimalValue(_)
DecimalValue(ds) ==
  IF ds = <<>> THEN 0
  ELSE 10 * DecimalValue(SubSeq(ds, 1, Len(ds) - 1)) + DigitValue(ds[Len(ds)])

\* parseInt(text): the value of the leading digits, NaN if there are none
parseInt(t) ==
  IF LeadingDigits(t) = <<>> THEN NaN ELSE DecimalValue(LeadingDigits(t))

\* stdout + (stderr ? `\nSTDERR:\n${stderr}` : '')
CombinedOutput(stdout, stderr) ==
  stdout \o (IF stderr # <<>> THEN <<"\nSTDERR:\n">> \o stderr ELSE <<>>)

\* `Terminal started with ID: ${processId}`
Started(processId) == [text |-> "Terminal started with ID: ", id |-> processId]

\* the result of a foreground run, built in its 'close' handler
ForegroundResult(stdout, stderr, code) ==
  IF CombinedOutput(stdout, stderr) # <<>>
    THEN [text |-> CombinedOutput(stdout, stderr)]
    ELSE [text |-> "Process completed with exit code: ", code |-> code]

\* Map.prototype.set
MapSet(map, key, value) ==
  [ k \in DOMAIN map \cup {key} |-> IF k = key THEN value ELSE map[k] ]

RECURSIVE OutputEvents(_)
OutputEvents(cs) ==
  IF cs = <<>> THEN 0
  ELSE Len(Head(cs).stdout) + Len(Head(cs).stderr) + OutputEvents(Tail(cs))

Clears == Cardinality({ i \in 1..Len(sinks) : sinks[i].sink = "system" })

Child(isBackground, processId, result) ==
  [ isBackground |-> isBackground, processId |-> processId,
    stdout |-> <<>>, stderr |-> <<>>, closed |-> FALSE, code |-> Null,
    result |-> result ]

\* `Error executing command: ${error.message}`
ErrorResult == [text |-> "Error executing command: ", message |-> "spawn ENOENT"]

\* the text getTerminalOutput returns
getTerminalOutputOf(registry, processId) ==
  IF parseInt(processId) \notin DOMAIN registry
    THEN [text |-> "No process found with ID: ", id |-> processId]
    ELSE LET process == registry[parseInt(processId)]
             output  == CombinedOutput(process.stdout, process.stderr)
         IN [ text    |-> "Process",
              id      |-> processId,
              status  |-> IF process.isRunning
                            THEN [text |-> "Running"]
                            ELSE [text |-> "Completed (exit code: ",
                                  exitCode |-> IF "exitCode" \in DOMAIN process
                                                 THEN process.exitCode
                                                 ELSE "undefined"],
              command |-> process.command,
              output  |-> IF output # <<>> THEN output
                                           ELSE <<"(no output yet)">> ]

getTerminalOutput(processId) ==
  getTerminalOutputOf(backgroundProcesses, processId)


(***************************************************************************)
(* Stream handlers of sendMessage                                          *)
(***************************************************************************)
SegInit ==
  /\ streamState = Null
  /\ sinks = <<>>
  /\ assistantResponse = <<>>
  /\ chunks = <<>>
  /\ upstream = "open"
  /\ stackOverflow = FALSE
  /\ functionCalls = <<>>

\* the parameter text on its way through the codec: the text the author
\* means (text), the text between the parameter tags (rawContent), what
\* validateXmlContent returned for it and what is stored in params
CodecInit ==
  codec = [ text |-> <<>>, pieces |-> 0, phase |-> "author", escaped |-> FALSE,
            rawContent |-> <<>>, valid |-> TRUE, stored |-> <<>> ]

RegInit ==
  /\ backgroundProcesses = <<>>
  /\ nextProcessId = 1
  /\ children = <<>>
  /\ lastPoll = Null
  /\ fault = FALSE

\* String.prototype.trim on the text: white space leaves both ends
WhiteSpace == {" ", "\n", "\t", "\r"}

RECURSIVE TrimStart(_)
TrimStart(t) ==
  IF t # <<>> /\ Head(t) \in WhiteSpace THEN TrimStart(Tail(t)) ELSE t

RECURSIVE TrimEnd(_)
TrimEnd(t) ==
  IF t # <<>> /\ t[Len(t)] \in WhiteSpace
    THEN TrimEnd(SubSeq(t, 1, Len(t) - 1))
    ELSE t

trim(t) == TrimEnd(TrimStart(t))

\* the messages of conversationHistory: the content is text, or the
\* function results that processFunctionCalls returned
Text(t) == [text |-> t]

Message(role, content) == [role |-> role, content |-> content]

SystemMessage == Message("system", Text(<<"system.md">>))

UserInputs == { <<"h", "i">> }

\* the assistant's response joins the conversation when it is not blank
PushAssistant(history, response) ==
  IF trim(response) # <<>>
    THEN Append(history, Message("assistant", Text(trim(response))))
    ELSE history

\* the constructor has loaded the system instructions and the first
\* message of the user is on its way: its response is being read
TurnInit ==
  /\ conversationHistory =
       <<SystemMessage, Message("user", Text(<<"h", "i">>))>>
  /\ dispatches = <<>>
  /\ timers = 0
  /\ prompts = 0
  /\ requests = <<[message |-> <<"h", "i">>,
                   messages |-> <<SystemMessage,
                                  Message("user", Text(<<"h", "i">>))>>]>>

\* nothing below the working directory yet
FsInit ==
  /\ fileSystem = <<>>
  /\ fileResult = Null

\* the constructor: currentInput = '', isPasting = false, pasteBuffer = '',
\* pasteTimeout = null
KeyInit ==
  /\ currentInput = <<>>
  /\ cursorPos = 0
  /\ isPasting = FALSE
  /\ pasteBuffer = <<>>
  /\ pasteTimeout = FALSE
  /\ lastKeypressTime = 0

Init == SegInit /\ CodecInit /\ RegInit /\ TurnInit /\ FsInit /\ KeyInit

(***************************************************************************)
(* processFunctionCalls.  One run per response: the calls extracted from   *)
(* the response, the index of the call the loop is at (pc), the result     *)
(* blocks concatenated so far, the child whose promise the loop awaits     *)
(* (0 if none), what the callback of the run did when it returned          *)
(* ("followUp": the results were written, pushed and the follow-up timer   *)
(* set; "prompt": the prompt was shown), and the log of what the loop did, *)
(* in the order it did it.  The loop runs until it awaits a foreground     *)
(* child: the continuation of an await on a settled promise runs before    *)
(* any other event is delivered.                                           *)
(***************************************************************************)
RecognizedNames ==
  { "run_in_terminal", "get_terminal_output", "list_dir", "file_search",
    "grep_search", "read_file", "create_file", "replace_string_in_file" }

\* `\n<function_results>\n${result}\n</function_results>\n`
ResultBlock(result) ==
  [ open |-> "\n<function_results>\n", result |-> result,
    close |-> "\n</function_results>\n" ]

FunctionResults(results) == [functionResults |-> results]

\* the file tools catch what goes wrong and return a text in every case
FileToolResult(call) == [text |-> "file tool text", tool |-> call.name]

Dispatched(i) == [call |-> i, event |-> "dispatched"]
Obtained(i, result) == [call |-> i, event |-> "result", result |-> result]

Run(calls) ==
  [ calls |-> calls, pc |-> 1, results |-> <<>>, awaiting |-> 0,
    outcome |-> "running", log |-> <<>> ]

\* the part of the state that processFunctionCalls and its callback touch
Machine ==
  [ registry |-> backgroundProcesses, nextId |-> nextProcessId,
    children |-> children, history |-> conversationHistory,
    dispatches |-> dispatches, timers |-> timers, fault |-> fault,
    out |-> sinks, prompts |-> prompts ]

Commit(m) ==
  /\ backgroundProcesses' = m.registry
  /\ nextProcessId' = m.nextId
  /\ children' = m.children
  /\ conversationHistory' = m.history
  /\ dispatches' = m.dispatches
  /\ timers' = m.timers
  /\ fault' = m.fault
  /\ sinks' = m.out
  /\ prompts' = m.prompts

\* call.parameters[name], "undefined" when the call does not carry it
Parameter(call, name) ==
  IF name \in DOMAIN call.parameters THEN call.parameters[name]
                                     ELSE <<"undefined">>

\* variant: the result block goes in front of the results
ObtainInFront(m, d, result) ==
  LET run == m.dispatches[d]
  IN [m EXCEPT !.dispatches[d] =
        [run EXCEPT !.results = <<ResultBlock(result)>> \o run.results,
                    !.pc = run.pc + 1,
                    !.awaiting = 0,
                    !.log = Append(run.log, Obtained(run.pc, result))]]

\* results += the block of the result; the loop goes to the next call
Obtain(m, d, result) ==
  LET run == m.dispatches[d]
  IN [m EXCEPT !.dispatches[d] =
        [run EXCEPT !.results = Append(run.results, ResultBlock(result)),
                    !.pc = run.pc + 1,
                    !.awaiting = 0,
                    !.log = Append(run.log, Obtained(run.pc, result))]]

Begin(m, d) ==
  [m EXCEPT !.dispatches[d].log =
              Append(m.dispatches[d].log, Dispatched(m.dispatches[d].pc))]

\* variant: the follow-up is requested whatever the results are
ThenAlwaysFollowUp(m, d) ==
  LET run == m.dispatches[d]
  IN [m EXCEPT
        !.out = Append(m.out, Write("functionResult", run.results)),
        !.history = Append(m.history,
                           Message("user", FunctionResults(run.results))),
        !.timers = m.timers + 1,
        !.dispatches[d].outcome = "followUp"]

\* the callback of processFunctionCalls(...).then in the finish_reason
\* branch
Then(m, d) ==
  LET run == m.dispatches[d]
  IN IF run.results # <<>>
       THEN [m EXCEPT
               !.out = Append(m.out, Write("functionResult", run.results)),
               !.history = Append(m.history,
                                  Message("user", FunctionResults(run.results))),
               !.timers = m.timers + 1,
               !.dispatches[d].outcome = "followUp"]
       ELSE [m EXCEPT !.dispatches[d].outcome = "prompt",
                      !.prompts = m.prompts + 1]

\* runInTerminal(command, explanation, true) inside the loop
SpawnBackground(m, command) ==
  [m EXCEPT
     !.registry = MapSet(m.registry, m.nextId,
                         [ stdout |-> <<>>, stderr |-> <<>>,
                           command |-> command,
                           explanation |-> "Running command",
                           isRunning |-> TRUE ]),
     !.nextId = m.nextId + 1,
     !.children = Append(m.children, Child(TRUE, m.nextId, Started(m.nextId)))]

\* runInTerminal(command, explanation, false) inside the loop
SpawnForeground(m) ==
  [m EXCEPT !.children = Append(m.children, Child(FALSE, 0, Null))]

\* variant: a name the loop does not know gets a result block
IgnoreWithBlock(m, d) ==
  Obtain(Begin(m, d), d, [text |-> "Unknown function"])

\* no branch of the loop takes the name: the loop goes to the next call
Ignore(m, d) ==
  [m EXCEPT !.dispatches[d].pc = m.dispatches[d].pc + 1]

\* the loop over the calls from call pc on, up to the next await of a
\* foreground command or to the return; spawnFails: the shell of a
\* background command cannot be spawned, and the 'error' event of the
\* child, which has no listener, ends the program before the loop goes on
RECURSIVE processFunctionCalls(_, _, _)
processFunctionCalls(m, d, spawnFails) ==
  LET run  == m.dispatches[d]
      call == run.calls[run.pc]
  IN
  IF run.pc > Len(run.calls) THEN Then(m, d)
  ELSE IF call.name = "run_in_terminal" THEN
    IF Parameter(call, "isBackground") = <<"t", "r", "u", "e">>
      THEN LET started == SpawnBackground(Begin(m, d), Parameter(call, "command"))
           IN IF spawnFails
                THEN [started EXCEPT !.fault = TRUE]
                ELSE processFunctionCalls(
                       Obtain(started, d, Started(m.nextId)), d, spawnFails)
      ELSE [SpawnForeground(Begin(m, d))
              EXCEPT !.dispatches[d].awaiting = Len(m.children) + 1]
  ELSE IF call.name = "get_terminal_output" THEN
    processFunctionCalls(
      Obtain(Begin(m, d), d,
             getTerminalOutputOf(m.registry, Parameter(call, "id"))),
      d, spawnFails)
  ELSE IF call.name \in RecognizedNames THEN
    processFunctionCalls(
      Obtain(Begin(m, d), d, FileToolResult(call)), d, spawnFails)
  ELSE processFunctionCalls(Ignore(m, d), d, spawnFails)

\* the promise of foreground child k is resolved: the run that awaits it
\* takes the result and goes on
Resolved(m, k, spawnFails) ==
  IF \E d \in 1..Len(m.dispatches) : m.dispatches[d].awaiting = k
    THEN LET d == CHOOSE d \in 1..Len(m.dispatches) :
                    m.dispatches[d].awaiting = k
         IN processFunctionCalls(Obtain(m, d, m.children[k].result),
                                 d, spawnFails)
    ELSE m

\* the finish_reason branch: the response joins the conversation and
\* processFunctionCalls is called on it
Finished(m, response, spawnFails) ==
  processFunctionCalls(
    [m EXCEPT !.history = PushAssistant(m.history, response),
              !.dispatches = Append(m.dispatches,
                                    Run(extractFunctionCalls(response)))],
    Len(m.dispatches) + 1, spawnFails)

\* a data line whose delta carries content
Chunk(c) ==
  /\ ~fault
  /\ upstream = "open"
  /\ Len(chunks) < MaxChunks
  /\ LET r == processStreamContent(
                [st |-> streamState, out |-> sinks, err |-> FALSE], c, 0)
     IN /\ streamState' = r.st
        /\ sinks' = r.out
        /\ stackOverflow' = (stackOverflow \/ r.err)
  /\ assistantResponse' = assistantResponse \o c
  /\ chunks' = Append(chunks, c)
  /\ UNCHANGED <<upstream, functionCalls, codec, regVars>>
  /\ UNCHANGED turnVars
  /\ UNCHANGED <<fsVars, keyVars>>

\* a data line whose choice carries finish_reason: the handler stores the
\* response and calls processFunctionCalls, which extracts the calls of the
\* whole response; it writes nothing through the three formatters and
\* does not touch streamState
FinishReason ==
  /\ ~fault
  /\ upstream = "open"
  /\ upstream' = "finish"
  /\ functionCalls' = extractFunctionCalls(assistantResponse)
  /\ \E spawnFails \in BOOLEAN :
       Commit(Finished(Machine, assistantResponse, spawnFails))
  /\ UNCHANGED <<streamState, assistantResponse, chunks, stackOverflow>>
  /\ UNCHANGED <<codec, lastPoll, requests>>
  /\ UNCHANGED <<fsVars, keyVars>>

\* the data line "[DONE]": what is left in streamState is written out
Done ==
  /\ ~fault
  /\ upstream \in {"open", "finish"}
  /\ upstream' = "done"
  /\ sinks' =
       IF streamState = Null THEN sinks
       ELSE LET out1 == IF /\ streamState.isInFunctionCall
                           /\ streamState.functionCallContent # <<>>
                          THEN Append(sinks, Write("functionCall",
                                        streamState.functionCallContent))
                          ELSE sinks
            IN WriteIf(out1, "plain", streamState.regularContent)
  /\ conversationHistory' = PushAssistant(conversationHistory, assistantResponse)
  /\ UNCHANGED <<streamState, assistantResponse, chunks, stackOverflow>>
  /\ UNCHANGED <<functionCalls, codec, regVars>>
  /\ UNCHANGED <<dispatches, timers, requests>>
  /\ prompts' = prompts + 1
  /\ UNCHANGED <<fsVars, keyVars>>

\* the 'end' event of the response body: nothing is flushed; the response
\* joins the conversation unless the last message already holds it
End ==
  /\ ~fault
  /\ upstream \in {"open", "finish", "done"}
  /\ upstream' = "end"
  /\ conversationHistory' =
       IF /\ conversationHistory # <<>>
          /\ conversationHistory[Len(conversationHistory)].content
               = Text(trim(assistantResponse))
         THEN conversationHistory
         ELSE PushAssistant(conversationHistory, assistantResponse)
  /\ UNCHANGED <<streamState, sinks, assistantResponse, chunks, stackOverflow>>
  /\ UNCHANGED <<functionCalls, codec, regVars>>
  /\ UNCHANGED <<dispatches, timers, requests>>
  /\ prompts' = IF extractFunctionCalls(assistantResponse) = <<>>
                 THEN prompts + 1 ELSE prompts
  /\ UNCHANGED <<fsVars, keyVars>>

Next ==
  \/ \E c \in Chunks : Chunk(c)
  \/ FinishReason
  \/ Done
  \/ End

Spec == Init /\ [][Next]_vars

(***************************************************************************)
(* Responses that carry function-call blocks                               *)
(***************************************************************************)
Param(n, text)    == <<ParamTag(n)>> \o text \o <<ParamClose>>
Invoke(n, params) == <<InvokeTag(n)>> \o params \o <<InvokeClose>>

\* &amp;lt; : the text "&lt;" escaped once
EscapedOnce == EntAmp \o <<"l","t",";">>

BodyRun    == Invoke("run_in_terminal", Param("command", <<"v">>))
BodyTwo    == Invoke("get_terminal_output", Param("id", <<"1">>))
                \o Invoke("run_in_terminal", Param("command", <<"v">>))
BodyEscaped == Invoke("run_in_terminal", Param("command", EscapedOnce))
\* a name and no parameter elements
BodyNoParam == Invoke("list_dir", <<>>)
\* the invoke element is not terminated
BodyUnterminated == <<InvokeTag("run_in_terminal")>> \o Param("command", <<"v">>)
\* the invoke element has no name attribute
BodyNoName == <<InvokeNoName>> \o Param("command", <<"v">>) \o <<InvokeClose>>

Bodies == {BodyRun, BodyTwo, BodyEscaped, BodyNoParam, BodyUnterminated,
           BodyNoName}

Block(b) == OpenFC \o b \o CloseFC

BlockChunks == { Block(b) : b \in Bodies }
\* the block split after its opening marker
TailChunks == { b \o CloseFC : b \in {BodyRun, BodyUnterminated} }

ExtractChunks == BlockChunks \cup TailChunks \cup {OpenFC, <<"a">>}

NextExtract ==
  \/ \E c \in ExtractChunks : Chunk(c)
  \/ FinishReason
  \/ Done
  \/ End

SpecExtract == Init /\ [][NextExtract]_vars

(***************************************************************************)
(* Parameter text through the codec: the author of a call writes a text,   *)
(* escaped as the tool instructions ask or left as it is, and the          *)
(* extractor validates and unescapes it (lines 1422-1428).                 *)
(***************************************************************************)
\* number of pieces a parameter text is put together from
MaxPieces == 3

\* a text as the tool instructions ask for it: a &amp;&lt;b&gt;
EscapedText == <<"a", " ">> \o EntAmp \o EntLt \o <<"b">> \o EntGt

Pieces ==
  { <<"a">>, <<"&">>, <<"<">>, <<">">>, <<"\"">>, <<"'">>, <<"l","t",";">>,
    EntAmp, EntLt, EntGt, EntQuot, EntApos, Ent39, EscapedText }

\* the escaping the tool instructions ask of the author: & first, then
\* the other four reserved characters
escapeXml(text) ==
  ReplaceAll(
    ReplaceAll(
      ReplaceAll(
        ReplaceAll(
          ReplaceAll(text, <<"&">>, EntAmp),
          <<"<">>, EntLt),
        <<">">>, EntGt),
      <<"\"">>, EntQuot),
    <<"'">>, EntApos)

Author(p) ==
  /\ codec.phase = "author"
  /\ codec.pieces < MaxPieces
  /\ codec' = [codec EXCEPT !.text = @ \o p, !.pieces = @ + 1]
  /\ UNCHANGED <<segVars, regVars>>
  /\ UNCHANGED turnVars
  /\ UNCHANGED <<fsVars, keyVars>>

SendEscaped ==
  /\ codec.phase = "author"
  /\ codec' = [codec EXCEPT !.phase = "sent", !.escaped = TRUE,
                            !.rawContent = escapeXml(codec.text)]
  /\ UNCHANGED <<segVars, regVars>>
  /\ UNCHANGED turnVars
  /\ UNCHANGED <<fsVars, keyVars>>

SendRaw ==
  /\ codec.phase = "author"
  /\ codec' = [codec EXCEPT !.phase = "sent", !.escaped = FALSE,
                            !.rawContent = codec.text]
  /\ UNCHANGED <<segVars, regVars>>
  /\ UNCHANGED turnVars
  /\ UNCHANGED <<fsVars, keyVars>>

\* lines 1422-1428: the value is validated, the outcome is not looked at,
\* and the unescaped value is stored
StoreParameter ==
  /\ codec.phase = "sent"
  /\ codec' = [codec EXCEPT !.phase = "stored",
                            !.valid = validateXmlContent(codec.rawContent),
                            !.stored = unescapeXml(codec.rawContent)]
  /\ UNCHANGED <<segVars, regVars>>
  /\ UNCHANGED turnVars
  /\ UNCHANGED <<fsVars, keyVars>>

NextCodec ==
  \/ \E p \in Pieces : Author(p)
  \/ SendEscaped
  \/ SendRaw
  \/ StoreParameter

SpecCodec == Init /\ [][NextCodec]_vars

(***************************************************************************)
(* The terminal operations as actions                                      *)
(***************************************************************************)
\* the counter is read and not advanced
StartBackgroundReusingId(command) ==
  /\ ~fault
  /\ Len(children) < MaxProcs
  /\ LET processId == nextProcessId IN
       /\ nextProcessId' = nextProcessId
       /\ backgroundProcesses' =
            MapSet(backgroundProcesses, processId,
                   [ stdout |-> <<>>, stderr |-> <<>>, command |-> command,
                     explanation |-> "wait", isRunning |-> TRUE ])
       /\ children' = Append(children, Child(TRUE, processId, Started(processId)))
  /\ lastPoll' = Null
  /\ UNCHANGED fault
  /\ UNCHANGED <<segVars, codec>>
  /\ UNCHANGED turnVars
  /\ UNCHANGED <<fsVars, keyVars>>

\* the promise is left pending at the start
StartBackgroundAwaitingClose(command) ==
  /\ ~fault
  /\ Len(children) < MaxProcs
  /\ LET processId == nextProcessId IN
       /\ nextProcessId' = nextProcessId + 1
       /\ backgroundProcesses' =
            MapSet(backgroundProcesses, processId,
                   [ stdout |-> <<>>, stderr |-> <<>>, command |-> command,
                     explanation |-> "wait", isRunning |-> TRUE ])
       /\ children' = Append(children, Child(TRUE, processId, Null))
  /\ lastPoll' = Null
  /\ UNCHANGED fault
  /\ UNCHANGED <<segVars, codec>>
  /\ UNCHANGED turnVars
  /\ UNCHANGED <<fsVars, keyVars>>

\* runInTerminal(command, explanation, true): the child is spawned, the
\* record is stored under the next id and the promise is resolved at once
StartBackground(command) ==
  /\ ~fault
  /\ Len(children) < MaxProcs
  /\ LET processId == nextProcessId IN
       /\ nextProcessId' = nextProcessId + 1
       /\ backgroundProcesses' =
            MapSet(backgroundProcesses, processId,
                   [ stdout |-> <<>>, stderr |-> <<>>, command |-> command,
                     explanation |-> "wait", isRunning |-> TRUE ])
       /\ children' = Append(children, Child(TRUE, processId, Started(processId)))
  /\ lastPoll' = Null
  /\ UNCHANGED fault
  /\ UNCHANGED <<segVars, codec>>
  /\ UNCHANGED turnVars
  /\ UNCHANGED <<fsVars, keyVars>>

\* the foreground run takes an id from the counter
StartForegroundTakingId(command) ==
  /\ ~fault
  /\ Len(children) < MaxProcs
  /\ children' = Append(children, Child(FALSE, 0, Null))
  /\ nextProcessId' = nextProcessId + 1
  /\ lastPoll' = Null
  /\ UNCHANGED fault
  /\ UNCHANGED <<backgroundProcesses, segVars, codec>>
  /\ UNCHANGED turnVars
  /\ UNCHANGED <<fsVars, keyVars>>

\* runInTerminal(command, explanation, false): the child is spawned and
\* the promise stays pending until the child's 'close' (or 'error') event
StartForeground(command) ==
  /\ ~fault
  /\ Len(children) < MaxProcs
  /\ children' = Append(children, Child(FALSE, 0, Null))
  /\ lastPoll' = Null
  /\ UNCHANGED fault
  /\ UNCHANGED <<backgroundProcesses, nextProcessId, segVars, codec>>
  /\ UNCHANGED turnVars
  /\ UNCHANGED <<fsVars, keyVars>>

\* a 'data' event of the child's stdout: the closure's handler and, for a
\* background child, the handler that appends to the record
StdoutData(k) ==
  /\ ~fault
  /\ k \in 1..Len(children)
  /\ ~children[k].closed
  /\ OutputEvents(children) < MaxOutput
  /\ children' = [children EXCEPT ![k].stdout = @ \o <<"o">>]
  /\ backgroundProcesses' =
       IF children[k].isBackground
            /\ children[k].processId \in DOMAIN backgroundProcesses
         THEN [backgroundProcesses EXCEPT
                 ![children[k].processId].stdout = @ \o <<"o">>]
         ELSE backgroundProcesses
  /\ lastPoll' = Null
  /\ UNCHANGED fault
  /\ UNCHANGED <<nextProcessId, segVars, codec>>
  /\ UNCHANGED turnVars
  /\ UNCHANGED <<fsVars, keyVars>>

\* a 'data' event of the child's stderr
StderrData(k) ==
  /\ ~fault
  /\ k \in 1..Len(children)
  /\ ~children[k].closed
  /\ OutputEvents(children) < MaxOutput
  /\ children' = [children EXCEPT ![k].stderr = @ \o <<"e">>]
  /\ backgroundProcesses' =
       IF children[k].isBackground
            /\ children[k].processId \in DOMAIN backgroundProcesses
         THEN [backgroundProcesses EXCEPT
                 ![children[k].processId].stderr = @ \o <<"e">>]
         ELSE backgroundProcesses
  /\ lastPoll' = Null
  /\ UNCHANGED fault
  /\ UNCHANGED <<nextProcessId, segVars, codec>>
  /\ UNCHANGED turnVars
  /\ UNCHANGED <<fsVars, keyVars>>

\* the close handler empties the captured output
CloseClearingOutput(k, code) ==
  /\ ~fault
  /\ k \in 1..Len(children)
  /\ ~children[k].closed
  /\ children' =
       [children EXCEPT
          ![k].closed = TRUE,
          ![k].code = code,
          ![k].result =
             IF children[k].isBackground THEN @
             ELSE ForegroundResult(children[k].stdout, children[k].stderr, code)]
  /\ backgroundProcesses' =
       IF children[k].isBackground
            /\ children[k].processId \in DOMAIN backgroundProcesses
         THEN [backgroundProcesses EXCEPT
                 ![children[k].processId] =
                    [@ EXCEPT !.isRunning = FALSE, !.stdout = <<>>,
                              !.stderr = <<>>]
                      @@ [exitCode |-> code, endTime |-> "set"]]
         ELSE backgroundProcesses
  /\ lastPoll' = Null
  /\ UNCHANGED fault
  /\ UNCHANGED <<nextProcessId, segVars, codec>>
  /\ UNCHANGED turnVars
  /\ UNCHANGED <<fsVars, keyVars>>

\* the record is marked as not running and gets no exit code
CloseWithoutExitCode(k, code) ==
  /\ ~fault
  /\ k \in 1..Len(children)
  /\ ~children[k].closed
  /\ children' =
       [children EXCEPT
          ![k].closed = TRUE,
          ![k].code = code,
          ![k].result =
             IF children[k].isBackground THEN @
             ELSE ForegroundResult(children[k].stdout, children[k].stderr, code)]
  /\ backgroundProcesses' =
       IF children[k].isBackground
            /\ children[k].processId \in DOMAIN backgroundProcesses
         THEN [backgroundProcesses EXCEPT
                 ![children[k].processId].isRunning = FALSE]
         ELSE backgroundProcesses
  /\ lastPoll' = Null
  /\ UNCHANGED fault
  /\ UNCHANGED <<nextProcessId, segVars, codec>>
  /\ UNCHANGED turnVars
  /\ UNCHANGED <<fsVars, keyVars>>

\* the 'close' event of a child: a background child's record is completed,
\* a foreground child's promise is resolved with its output
Close(k, code) ==
  /\ ~fault
  /\ k \in 1..Len(children)
  /\ ~children[k].closed
  /\ LET closed ==
           [children EXCEPT
              ![k].closed = TRUE,
              ![k].code = code,
              ![k].result =
                 IF children[k].isBackground THEN @
                 ELSE ForegroundResult(children[k].stdout, children[k].stderr,
                                       code)]
         registry ==
           IF children[k].isBackground
                /\ children[k].processId \in DOMAIN backgroundProcesses
             THEN [backgroundProcesses EXCEPT
                     ![children[k].processId] =
                        [@ EXCEPT !.isRunning = FALSE]
                          @@ [exitCode |-> code, endTime |-> "set"]]
             ELSE backgroundProcesses
     IN \E spawnFails \in BOOLEAN :
          Commit(Resolved([Machine EXCEPT !.children = closed,
                                          !.registry = registry],
                          k, spawnFails))
  /\ lastPoll' = Null
  /\ UNCHANGED <<streamState, assistantResponse, chunks, upstream,
                 stackOverflow, functionCalls, codec, requests>>
  /\ UNCHANGED <<fsVars, keyVars>>

\* the 'error' event of a child that could not be spawned (no event of it
\* was delivered before).  A foreground child has an 'error' listener
\* that resolves the promise; a background child has none, so the event
\* is thrown by the emitter and nothing catches it
SpawnError(k) ==
  /\ ~fault
  /\ k \in 1..Len(children)
  /\ ~children[k].closed
  /\ children[k].stdout = <<>> /\ children[k].stderr = <<>>
  /\ IF children[k].isBackground
       THEN /\ fault' = TRUE
            /\ UNCHANGED <<backgroundProcesses, nextProcessId, children,
                           sinks, turnVars>>
       ELSE \E spawnFails \in BOOLEAN :
              Commit(Resolved(
                [Machine EXCEPT !.children =
                   [children EXCEPT ![k].closed = TRUE,
                                    ![k].code = -2,
                                    ![k].result = ErrorResult]],
                k, spawnFails))
  /\ lastPoll' = Null
  /\ UNCHANGED <<streamState, assistantResponse, chunks, upstream,
                 stackOverflow, functionCalls, codec, requests>>
  /\ UNCHANGED <<fsVars, keyVars>>

\* a get_terminal_output call
Poll(processId) ==
  /\ ~fault
  /\ lastPoll' = getTerminalOutput(processId)
  /\ UNCHANGED <<backgroundProcesses, nextProcessId, children, fault, segVars, codec>>
  /\ UNCHANGED turnVars
  /\ UNCHANGED <<fsVars, keyVars>>

\* Ctrl+L also empties the registry and restarts the counter
ClearHistoryResettingRegistry ==
  /\ ~fault
  /\ Clears < MaxClears
  /\ streamState' = Null
  /\ conversationHistory' =
       SelectSeq(conversationHistory, LAMBDA m : m.role = "system")
  /\ sinks' = Append(sinks, Write("system", <<"Conversation history cleared">>))
  /\ lastPoll' = Null
  /\ backgroundProcesses' = <<>>
  /\ nextProcessId' = 1
  /\ UNCHANGED fault
  /\ UNCHANGED <<assistantResponse, chunks, upstream, stackOverflow,
                 functionCalls, codec>>
  /\ UNCHANGED children
  /\ UNCHANGED <<dispatches, timers, requests>>
  /\ prompts' = prompts + 1
  /\ UNCHANGED <<fsVars, keyVars>>

\* Ctrl+L: only the system messages stay in the conversation, the stream
\* state is reset and the notice is written; the registry is not touched
ClearHistory ==
  /\ ~fault
  /\ Clears < MaxClears
  /\ streamState' = Null
  /\ conversationHistory' =
       SelectSeq(conversationHistory, LAMBDA m : m.role = "system")
  /\ sinks' = Append(sinks, Write("system", <<"Conversation history cleared">>))
  /\ lastPoll' = Null
  /\ UNCHANGED fault
  /\ UNCHANGED <<assistantResponse, chunks, upstream, stackOverflow,
                 functionCalls, codec>>
  /\ UNCHANGED <<backgroundProcesses, nextProcessId, children>>
  /\ UNCHANGED <<dispatches, timers, requests>>
  /\ prompts' = prompts + 1
  /\ UNCHANGED <<fsVars, keyVars>>

NextRegistry ==
  \/ \E c \in Commands : StartBackground(c)
  \/ \E c \in Commands : StartForeground(c)
  \/ \E k \in 1..MaxProcs : StdoutData(k)
  \/ \E k \in 1..MaxProcs : StderrData(k)
  \/ \E k \in 1..MaxProcs, code \in ExitCodes : Close(k, code)
  \/ \E k \in 1..MaxProcs : SpawnError(k)
  \/ \E a \in PollArgs : Poll(a)
  \/ ClearHistory

SpecRegistry == Init /\ [][NextRegistry]_vars

(***************************************************************************)
(* Turns: a response arrives, its calls are dispatched, the follow-up      *)
(* timer sends the next request, the user sends a message or clears the    *)
(* history.  The user sends a message when the prompt is shown.            *)
(***************************************************************************)
\* number of requests sent to the model
MaxTurns == 2

True == <<"t", "r", "u", "e">>

\* a foreground command, a name the loop does not know, a poll and a
\* background command
BodyMixed ==
  Invoke("run_in_terminal", Param("command", <<"v">>))
    \o Invoke("web_search", Param("query", <<"q">>))
    \o Invoke("get_terminal_output", Param("id", <<"1">>))
    \o Invoke("run_in_terminal",
               Param("command", <<"v">>) \o Param("isBackground", True))

\* calls without the parameters their tools need
BodyMissing ==
  Invoke("get_terminal_output", Param("path", <<"p">>))
    \o Invoke("list_dir", Param("id", <<"1">>))
    \o Invoke("run_in_terminal", Param("path", <<"p">>))

BodyUnknown == Invoke("web_search", Param("query", <<"q">>))

\* the content lines of a response, a line each
Responses ==
  { <<OpenFC, BodyMixed \o CloseFC>>,
    <<OpenFC, BodyMissing \o CloseFC>>,
    <<OpenFC, BodyUnknown \o CloseFC>>,
    <<OpenThink \o <<"a">>>>,
    <<OpenFC>> }

RECURSIVE Feed(_, _)
Feed(s, contents) ==
  IF contents = <<>> THEN s
  ELSE LET r == processStreamContent([s EXCEPT !.err = FALSE],
                                     Head(contents), 0)
       IN Feed([r EXCEPT !.err = s.err \/ r.err], Tail(contents))

RECURSIVE Flatten(_)
Flatten(contents) ==
  IF contents = <<>> THEN <<>>
  ELSE Head(contents) \o Flatten(Tail(contents))

\* a 'data' event of the response body that carries all the lines of a
\* response: its content lines, then the line with the finish_reason
Data(contents) ==
  /\ ~fault
  /\ upstream = "open"
  /\ chunks = <<>>
  /\ Len(contents) <= MaxChunks
  /\ upstream' = "finish"
  /\ LET fed == Feed([st |-> streamState, out |-> sinks, err |-> FALSE],
                     contents)
         response == assistantResponse \o Flatten(contents)
     IN /\ streamState' = fed.st
        /\ stackOverflow' = (stackOverflow \/ fed.err)
        /\ assistantResponse' = response
        /\ chunks' = chunks \o contents
        /\ functionCalls' = extractFunctionCalls(response)
        /\ \E spawnFails \in BOOLEAN :
             Commit(Finished([Machine EXCEPT !.out = fed.out], response,
                             spawnFails))
  /\ UNCHANGED <<codec, lastPoll, requests>>
  /\ UNCHANGED <<fsVars, keyVars>>

\* variant: the stream state of the turn before stays
sendMessageKeepingStreamState(message) ==
  /\ ~fault
  /\ Len(requests) < MaxTurns
  /\ conversationHistory' =
       IF trim(message) # <<>>
         THEN Append(conversationHistory, Message("user", Text(message)))
         ELSE conversationHistory
  /\ UNCHANGED streamState
  /\ requests' = Append(requests, [ message  |-> message,
                                    messages |-> conversationHistory' ])
  /\ upstream' = "open"
  /\ assistantResponse' = <<>>
  /\ chunks' = <<>>
  /\ UNCHANGED <<sinks, stackOverflow, functionCalls, codec, regVars,
                 dispatches>>
  /\ UNCHANGED prompts
  /\ UNCHANGED fsVars

\* sendMessage(message) up to the fetch: the message joins the
\* conversation if it is not blank, the stream state is dropped, the
\* conversation is sent and the response of this request is read
sendMessage(message) ==
  /\ ~fault
  /\ Len(requests) < MaxTurns
  /\ conversationHistory' =
       IF trim(message) # <<>>
         THEN Append(conversationHistory, Message("user", Text(message)))
         ELSE conversationHistory
  /\ streamState' = Null
  /\ requests' = Append(requests, [ message  |-> message,
                                    messages |-> conversationHistory' ])
  /\ upstream' = "open"
  /\ assistantResponse' = <<>>
  /\ chunks' = <<>>
  /\ UNCHANGED <<sinks, stackOverflow, functionCalls, codec, regVars,
                 dispatches>>
  /\ UNCHANGED prompts
  /\ UNCHANGED fsVars

\* Enter on an input line that is not blank: the handler looks neither
\* at the response being read nor at the calls being run
Enter(input) ==
  /\ trim(input) # <<>>
  /\ sendMessage(input)
  /\ UNCHANGED <<timers, keyVars>>

\* the user types the line and Enter when the prompt is shown
EnterAtPrompt(input) ==
  /\ dispatches # <<>>
  /\ dispatches[Len(dispatches)].outcome = "prompt"
  /\ upstream # "open"
  /\ Enter(input)

\* the timer set by the callback of processFunctionCalls fires
FollowUp ==
  /\ timers > 0
  /\ timers' = timers - 1
  /\ sendMessage(<<>>)
  /\ UNCHANGED keyVars

NextTurn ==
  \/ \E contents \in Responses : Data(contents)
  \/ \E k \in 1..(2 * MaxTurns) : Close(k, 0)
  \/ \E k \in 1..(2 * MaxTurns) : SpawnError(k)
  \/ \E input \in UserInputs : EnterAtPrompt(input)
  \/ FollowUp
  \/ ClearHistory

SpecTurn == Init /\ [][NextTurn]_vars

(***************************************************************************)
(* Observations used by the properties                                     *)
(***************************************************************************)
RECURSIVE SinkText(_, _)
\* concatenation, in write order, of the text written to one sink
SinkText(out, sink) ==
  IF out = <<>> THEN <<>>
  ELSE (IF Head(out).sink = sink THEN Head(out).text ELSE <<>>)
         \o SinkText(Tail(out), sink)

RECURSIVE AllText(_)
\* concatenation, in write order, of everything written to the three sinks
AllText(out) ==
  IF out = <<>> THEN <<>>
  ELSE (IF Head(out).sink \in {"plain", "thinking", "functionCall"}
          THEN Head(out).text ELSE <<>>)
         \o AllText(Tail(out))

RECURSIVE BlockTexts(_)
\* the function-call blocks displayed, in order
BlockTexts(out) ==
  IF out = <<>> THEN <<>>
  ELSE (IF Head(out).sink = "functionCall" THEN <<Head(out).text>> ELSE <<>>)
         \o BlockTexts(Tail(out))

State == IF streamState = Null THEN FreshState ELSE streamState

InThinking == State.isInThinkingTag
InFunctionCall == State.isInFunctionCall
InPlain == ~InThinking /\ ~InFunctionCall

Held(st) == st.thinkingContent \o st.functionCallContent \o st.regularContent

RECURSIVE RemoveAll(_, _)
RemoveAll(s, m) ==
  IF Includes(s, m) THEN BeforeFirst(s, m) \o RemoveAll(AfterFirst(s, m), m)
  ELSE s

StripThink(s) == RemoveAll(RemoveAll(s, OpenThink), CloseThink)

RECURSIVE RefPlain(_)
\* the text outside the thinking markers
RefPlain(t) ==
  IF ~Includes(t, OpenThink) THEN t
  ELSE LET a == AfterFirst(t, OpenThink)
       IN BeforeFirst(t, OpenThink)
            \o (IF Includes(a, CloseThink)
                  THEN RefPlain(AfterFirst(a, CloseThink)) ELSE <<>>)

RECURSIVE RefThinking(_)
\* the text between the thinking markers
RefThinking(t) ==
  IF ~Includes(t, OpenThink) THEN <<>>
  ELSE LET a == AfterFirst(t, OpenThink)
       IN IF Includes(a, CloseThink)
            THEN BeforeFirst(a, CloseThink)
                   \o RefThinking(AfterFirst(a, CloseThink))
            ELSE a

Markers == {OpenThink, CloseThink, OpenFC, CloseFC}

HasMarker(t) == \E m \in Markers : Includes(t, m)

\* the marker that occurs first in a text that has one
FirstMarker(t) ==
  CHOOSE m \in Markers :
    /\ Includes(t, m)
    /\ \A n \in Markers : Includes(t, n) => IndexOf(t, m) <= IndexOf(t, n)

Closer(m) == IF m = OpenThink THEN CloseThink ELSE CloseFC

RECURSIVE WellFormed(_)
\* a reference text: plain text and closed thinking and function-call
\* regions, no marker inside a region
WellFormed(t) ==
  IF ~HasMarker(t) THEN TRUE
  ELSE LET m == FirstMarker(t)
           a == AfterFirst(t, m)
       IN /\ m \in {OpenThink, OpenFC}
          /\ Includes(a, Closer(m))
          /\ ~HasMarker(BeforeFirst(a, Closer(m)))
          /\ FirstMarker(a) = Closer(m)
          /\ WellFormed(AfterFirst(a, Closer(m)))

\* what a consumer of the segmenter observes
View(st, out) ==
  [ plain    |-> SinkText(out, "plain"),
    thinking |-> SinkText(out, "thinking"),
    blocks   |-> BlockTexts(out),
    think    |-> st.isInThinkingTag,
    fc       |-> st.isInFunctionCall ]

Whole(text) ==
  processStreamContent([st |-> Null, out |-> <<>>, err |-> FALSE], text, 0)

(***************************************************************************)
(* Properties                                                              *)
(***************************************************************************)

\* C1: feeding a reference text split into chunks yields the same plain
\* text, thinking text, function-call blocks and final region as feeding
\* the whole text as a single chunk.
C1_ChunkBoundaryInvariance ==
  ( /\ upstream = "open" /\ chunks # <<>>
    /\ WellFormed(assistantResponse)
    /\ ~stackOverflow /\ ~Whole(assistantResponse).err ) =>
    View(State, sinks) =
      View(Whole(assistantResponse).st, Whole(assistantResponse).out)

\* C2: the text written to the sinks followed by the text held in the
\* buffers is the text received (the thinking markers, which are consumed,
\* set aside): nothing is lost, duplicated or reordered.
C2_NoLossNoDuplication ==
  (upstream = "open" /\ ~stackOverflow) =>
    StripThink(AllText(sinks) \o Held(State)) = StripThink(assistantResponse)

\* C3: isInThinkingTag and isInFunctionCall are never both true.
C3_RegionExclusive ==
  ~stackOverflow => ~(InThinking /\ InFunctionCall)

\* C4: in Thinking or FunctionCall the plain buffer is empty, and outside
\* FunctionCall the function-call buffer is empty.
C4_InactiveBuffersEmpty ==
  ~stackOverflow =>
    /\ (InThinking \/ InFunctionCall) => State.regularContent = <<>>
    /\ ~InFunctionCall => State.functionCallContent = <<>>

\* C5: when every thinking marker arrives whole, the thinking sink holds
\* exactly the text between the markers and the plain sink exactly the
\* text outside them.
C5_ThinkingUnsplit ==
  ( /\ upstream = "open"
    /\ \A i \in 1..Len(chunks) : chunks[i] \in WholeThinkChunks ) =>
    /\ SinkText(sinks, "thinking") = RefThinking(assistantResponse)
    /\ SinkText(sinks, "plain") = RefPlain(assistantResponse)

\* C6: once the text received after the opening thinking marker contains
\* the closing marker (and no further opening marker), the segmenter is no
\* longer in Thinking, however the closing marker was split into chunks.
C6_ThinkingCloses ==
  ( /\ chunks # <<>>
    /\ chunks[1] = OpenThink
    /\ LET a == AfterFirst(assistantResponse, OpenThink)
       IN /\ Includes(a, CloseThink)
          /\ ~Includes(a, OpenThink) ) =>
    ~InThinking

\* C7: the first block displayed is exactly the stream text from the
\* opening function-call marker through the first closing marker, and the
\* text after it goes to the plain sink.
C7_BlockExact ==
  ( /\ upstream = "open" /\ ~stackOverflow
    /\ ~Includes(assistantResponse, OpenThink)
    /\ ~Includes(assistantResponse, CloseThink)
    /\ Includes(assistantResponse, OpenFC)
    /\ Includes(AfterFirst(assistantResponse, OpenFC), CloseFC)
    /\ BlockTexts(sinks) # <<>> ) =>
    LET before == BeforeFirst(assistantResponse, OpenFC)
        a      == AfterFirst(assistantResponse, OpenFC)
        after  == AfterFirst(a, CloseFC)
    IN /\ BlockTexts(sinks)[1] = OpenFC \o BeforeFirst(a, CloseFC) \o CloseFC
       /\ ( ~Includes(after, OpenFC) /\ ~Includes(after, CloseFC) ) =>
            SinkText(sinks, "plain") = before \o after

\* C8: in FunctionCall, a chunk that does not complete the closing marker
\* is only appended to the function-call buffer: nothing is written and
\* the region does not change.
C8_FunctionCallSilent ==
  [][ ( /\ InFunctionCall /\ ~InThinking /\ ~stackOverflow
        /\ Len(chunks') = Len(chunks) + 1
        /\ ~Includes(State.functionCallContent \o chunks'[Len(chunks')],
                     CloseFC) ) =>
      ( /\ sinks' = sinks
        /\ streamState'.isInFunctionCall /\ ~streamState'.isInThinkingTag
        /\ streamState'.functionCallContent =
             State.functionCallContent \o chunks'[Len(chunks')] ) ]_vars

\* C9: in Plain, a chunk in which no opening marker is detected is written
\* in full to the plain sink in the same step, and the plain buffer is
\* empty afterwards.
C9_PlainFlushed ==
  [][ ( /\ InPlain /\ ~stackOverflow
        /\ Len(chunks') = Len(chunks) + 1
        /\ ~Includes(State.regularContent \o chunks'[Len(chunks')], OpenThink)
        /\ ~Includes(State.regularContent \o chunks'[Len(chunks')], OpenFC) ) =>
      ( /\ streamState'.regularContent = <<>>
        /\ Len(sinks') = Len(sinks) + 1
        /\ sinks'[Len(sinks')].sink = "plain"
        /\ LET t == sinks'[Len(sinks')].text
               c == chunks'[Len(chunks')]
           IN Len(t) >= Len(c)
              /\ SubSeq(t, Len(t) - Len(c) + 1, Len(t)) = c ) ]_vars

\* C10: when the upstream signals completion inside FunctionCall the
\* buffered block is written once to the function-call sink, and inside
\* Thinking or FunctionCall nothing is written to another region's sink.
C10_EndOfStreamFlush ==
  [][ ( upstream = "open" /\ upstream' # "open" /\ ~stackOverflow ) =>
      ( /\ ( InFunctionCall /\ ~InThinking ) =>
             sinks' = Append(sinks, Write("functionCall",
                                          State.functionCallContent))
        /\ ( InThinking /\ ~InFunctionCall ) => sinks' = sinks ) ]_vars

(***************************************************************************)
(* Properties of the extractor (SpecExtract)                               *)
(***************************************************************************)
\* the entities of the codec, with the character each stands for
CodecEntities ==
  { <<EntLt, "<">>, <<EntGt, ">">>, <<EntQuot, "\"">>, <<EntApos, "'">>,
    <<Ent39, "'">>, <<EntAmp, "&">> }

RECURSIVE DecodeOnce(_)
\* one pass from left to right that decodes every entity exactly one level
DecodeOnce(t) ==
  IF t = <<>> THEN <<>>
  ELSE LET here == { e \in CodecEntities :
                       /\ Len(e[1]) <= Len(t)
                       /\ SubSeq(t, 1, Len(e[1])) = e[1] }
       IN IF here # {}
            THEN LET e == CHOOSE e \in here : TRUE
                 IN <<e[2]>> \o DecodeOnce(SubSeq(t, Len(e[1]) + 1, Len(t)))
            ELSE <<Head(t)>> \o DecodeOnce(Tail(t))

Call(n, ps) == [name |-> n, parameters |-> ps]

\* the calls each chunk of ExtractChunks is written to carry
ExpectedCalls(c) ==
  CASE c = Block(BodyRun) ->
         << Call("run_in_terminal", [command |-> <<"v">>]) >>
    [] c = Block(BodyTwo) ->
         << Call("get_terminal_output", [id |-> <<"1">>]),
            Call("run_in_terminal", [command |-> <<"v">>]) >>
    [] c = Block(BodyEscaped) ->
         << Call("run_in_terminal", [command |-> DecodeOnce(EscapedOnce)]) >>
    [] c = Block(BodyNoParam) ->
         << Call("list_dir", <<>>) >>
    [] OTHER -> <<>>

RECURSIVE ExpectedOf(_)
ExpectedOf(cs) ==
  IF cs = <<>> THEN <<>> ELSE ExpectedCalls(Head(cs)) \o ExpectedOf(Tail(cs))

CallNames(calls) == [k \in 1..Len(calls) |-> calls[k].name]

\* the response is made of whole blocks and plain text
AllWhole ==
  \A i \in 1..Len(chunks) : chunks[i] \in BlockChunks \cup {<<"a">>}

Sent(c) == \E i \in 1..Len(chunks) : chunks[i] = c

\* C11: an invocation with a name and no parameter elements is extracted
\* as a call with that name and an empty parameter mapping.
C11_NoParameterCall ==
  (upstream = "finish" /\ AllWhole /\ Sent(Block(BodyNoParam))) =>
    \E k \in 1..Len(functionCalls) : functionCalls[k] = Call("list_dir", <<>>)

\* C12: the calls extracted are the well-formed invocations of all blocks
\* in document order, as many as there are.
C12_DocumentOrder ==
  (upstream = "finish" /\ AllWhole) =>
    CallNames(functionCalls) = CallNames(ExpectedOf(chunks))

C14_DecodedOnce ==
  ( /\ upstream = "finish"
    /\ \A i \in 1..Len(chunks) :
         chunks[i] \in {Block(BodyRun), Block(BodyTwo), Block(BodyEscaped)} ) =>
    functionCalls = ExpectedOf(chunks)

(***************************************************************************)
(* Properties of the codec (SpecCodec)                                     *)
(***************************************************************************)
\* C15: unescapeXml decodes every entity of its input exactly one level:
\* what is stored is the left-to-right single decoding of the parameter
\* text; in particular &amp;lt; is stored as &lt; (not <) and
\* a &amp;&lt;b&gt; is stored as a &<b>.
C15_OneLevel ==
  codec.phase = "stored" =>
    /\ codec.stored = DecodeOnce(codec.rawContent)
    /\ codec.rawContent = EscapedOnce => codec.stored = EntLt
    /\ codec.rawContent = EscapedText =>
         codec.stored = <<"a", " ", "&", "<", "b", ">">>

C15_Witness ==
  /\ codec.phase = "stored"
  /\ codec.rawContent = EscapedText \o EscapedOnce
  /\ codec.stored = <<"a", " ", "&", "<", "b", ">">> \o EntLt

\* C16: entity round trip: a text that was escaped (& first, then the
\* other reserved characters) is stored unescaped as the very same text.
C16_RoundTrip ==
  (codec.phase = "stored" /\ codec.escaped) => codec.stored = codec.text

C16_Witness ==
  /\ codec.phase = "stored" /\ codec.escaped
  /\ codec.text = <<"&">> \o EntLt \o <<"'">>
  /\ codec.rawContent = EntAmp \o EntAmp \o <<"l","t",";">> \o EntApos
  /\ codec.stored = codec.text

\* a literal <, a literal >, or an & that does not start an entity
NeedsWarning(t) ==
  \/ Includes(t, <<"<">>)
  \/ Includes(t, <<">">>)
  \/ \E i \in 1..Len(t) :
       /\ t[i] = "&"
       /\ ~\E e \in CodecEntities :
            /\ i + Len(e[1]) - 1 <= Len(t)
            /\ SubSeq(t, i, i + Len(e[1]) - 1) = e[1]

\* C17: validateXmlContent warns for every parameter text that holds a
\* literal <, a literal > or a bare &, also when the text holds escaped
\* entities elsewhere, and the value is stored whatever the outcome.
C17_WarnsOnEveryLiteral ==
  codec.phase = "stored" =>
    /\ NeedsWarning(codec.rawContent) => ~codec.valid
    /\ codec.stored = unescapeXml(codec.rawContent)

(***************************************************************************)
(* Properties of the terminal operations (SpecRegistry)                    *)
(***************************************************************************)
\* the background children, in the order of their starts
BackgroundStarts == SelectSeq(children, LAMBDA c : c.isBackground)

\* C18: id monotonicity: the i-th background start returned id i (the
\* first 1, each the previous plus one, none twice), the counter is one
\* past the ids issued and the registry holds exactly these ids, whatever
\* foreground runs, polls, completions and history clears came in between.
C18_IdMonotonic ==
  /\ \A i \in 1..Len(BackgroundStarts) :
       /\ BackgroundStarts[i].processId = i
       /\ BackgroundStarts[i].result # Null =>
            BackgroundStarts[i].result = Started(i)
  /\ nextProcessId = Len(BackgroundStarts) + 1
  /\ DOMAIN backgroundProcesses = 1..Len(BackgroundStarts)

C18_Witness ==
  /\ Len(children) = 2
  /\ children[1].isBackground /\ children[1].result = Started(1)
  /\ children[1].closed
  /\ children[2].isBackground /\ children[2].result = Started(2)
  /\ Clears = 1
  /\ lastPoll # Null

\* C19: a background start resolves with the new id in the very step that
\* spawns the child, before any output or close event of the child: the
\* result is there while the record is running and empty, and no
\* background child is ever left with a pending promise.
C19_BackgroundResolvesAtStart ==
  /\ [](\A k \in 1..Len(children) :
          children[k].isBackground => children[k].result # Null)
  /\ [][ ( /\ Len(children') = Len(children) + 1
           /\ children'[Len(children')].isBackground ) =>
         LET c == children'[Len(children')] IN
           /\ c.result = Started(nextProcessId)
           /\ ~c.closed /\ c.stdout = <<>> /\ c.stderr = <<>>
           /\ nextProcessId \in DOMAIN backgroundProcesses'
           /\ backgroundProcesses'[nextProcessId].isRunning
           /\ backgroundProcesses'[nextProcessId].stdout = <<>>
           /\ backgroundProcesses'[nextProcessId].stderr = <<>> ]_vars

\* a background start has its result while its record is running, next to
\* a foreground run that is still pending
C19_Witness ==
  \E k, j \in 1..Len(children) :
    /\ children[k].isBackground /\ children[k].result = Started(1)
    /\ ~children[k].closed /\ children[k].stdout = <<>>
    /\ backgroundProcesses[1].isRunning
    /\ ~children[j].isBackground /\ children[j].result = Null

\* the record of the k-th child (a background child)
RecordOf(k) == backgroundProcesses[children[k].processId]

\* C20: a record is running from its creation until the close event of
\* its process and never again afterwards; it has an exit code exactly
\* when it is not running; a poll of a record that is running reports
\* Running (with no output if none arrived), a poll of a completed
\* record reports Completed with the code of the close event.
C20_RunningUntilClose ==
  /\ [](\A k \in 1..Len(children) : children[k].isBackground =>
          /\ RecordOf(k).isRunning = ~children[k].closed
          /\ RecordOf(k).isRunning <=> "exitCode" \notin DOMAIN RecordOf(k)
          /\ children[k].closed => RecordOf(k).exitCode = children[k].code
          /\ ( lastPoll # Null /\ parseInt(lastPoll.id) = children[k].processId ) =>
               /\ lastPoll.text = "Process"
               /\ ~children[k].closed => lastPoll.status = [text |-> "Running"]
               /\ ( ~children[k].closed /\ children[k].stdout = <<>>
                      /\ children[k].stderr = <<>> ) =>
                    lastPoll.output = <<"(no output yet)">>
               /\ children[k].closed =>
                    lastPoll.status = [text |-> "Completed (exit code: ",
                                       exitCode |-> children[k].code])
  /\ [][ \A id \in DOMAIN backgroundProcesses :
           ~backgroundProcesses[id].isRunning =>
             /\ id \in DOMAIN backgroundProcesses'
             /\ ~backgroundProcesses'[id].isRunning
             /\ backgroundProcesses'[id].exitCode
                  = backgroundProcesses[id].exitCode ]_vars

\* a poll after completion, for a process that ended with code 1
C20_Witness ==
  /\ Len(children) >= 1
  /\ children[1].isBackground /\ children[1].closed /\ children[1].code = 1
  /\ lastPoll # Null /\ lastPoll.id = <<"1">>
  /\ lastPoll.status = [text |-> "Completed (exit code: ", exitCode |-> 1]
  /\ ~backgroundProcesses[1].isRunning

IsPrefix(a, b) == Len(a) <= Len(b) /\ SubSeq(b, 1, Len(a)) = a

\* the stdout and the stderr part of the output a poll reported
PolledStdout(report) ==
  IF report.output = <<"(no output yet)">> THEN <<>>
  ELSE IF Includes(report.output, <<"\nSTDERR:\n">>)
    THEN BeforeFirst(report.output, <<"\nSTDERR:\n">>)
    ELSE report.output

PolledStderr(report) ==
  IF report.output = <<"(no output yet)">> THEN <<>>
  ELSE IF Includes(report.output, <<"\nSTDERR:\n">>)
    THEN AfterFirst(report.output, <<"\nSTDERR:\n">>)
    ELSE <<>>

IdText(id) == <<ToString(id)>>

\* C22: getTerminalOutput answers "No process found" exactly when its
\* argument is not an id that a background start issued, otherwise with
\* the snapshot of that id's record, and leaves the registry as it is.
C22_NotFoundExactly ==
  lastPoll # Null =>
    LET issued == \E id \in 1..(nextProcessId - 1) : lastPoll.id = IdText(id)
    IN /\ lastPoll.text = "No process found with ID: " <=> ~issued
       /\ issued => lastPoll.text = "Process"

\* C23: a record, once stored, stays under its id with its command and
\* what it has captured; Ctrl+L changes neither the registry nor the
\* child processes, and after it a running process still takes output.
C23_RecordsStay ==
  /\ [][ /\ \A id \in DOMAIN backgroundProcesses :
              /\ id \in DOMAIN backgroundProcesses'
              /\ backgroundProcesses'[id].command
                   = backgroundProcesses[id].command
              /\ Len(backgroundProcesses'[id].stdout)
                   >= Len(backgroundProcesses[id].stdout)
              /\ Len(backgroundProcesses'[id].stderr)
                   >= Len(backgroundProcesses[id].stderr)
         /\ Clears' # Clears =>
              UNCHANGED <<backgroundProcesses, nextProcessId, children>>
       ]_vars
  /\ []( \A k \in 1..Len(children) :
           ( /\ Clears >= 1 /\ ~fault
             /\ children[k].isBackground /\ ~children[k].closed
             /\ OutputEvents(children) < MaxOutput ) =>
             ENABLED StdoutData(k) )

\* after a history clear the record of a running process has output
C23_Witness ==
  /\ Clears = 1
  /\ 1 \in DOMAIN backgroundProcesses
  /\ backgroundProcesses[1].isRunning
  /\ backgroundProcesses[1].stdout = <<"o">>
  /\ lastPoll # Null /\ lastPoll.text = "Process"
  /\ lastPoll.output = <<"o">>

\* C24: a foreground run stores no record and takes no id: the step
\* that starts it and the events of its child leave the registry and the
\* counter as they were; its promise is resolved only by the close (or
\* error) event of the child.
C24_ForegroundLeavesRegistry ==
  /\ []( \A k \in 1..Len(children) :
           ( ~children[k].isBackground /\ children[k].result # Null ) =>
             children[k].closed )
  /\ [][ /\ ( /\ Len(children') = Len(children) + 1
              /\ ~children'[Len(children')].isBackground ) =>
              /\ UNCHANGED <<backgroundProcesses, nextProcessId>>
              /\ children'[Len(children')].result = Null
         /\ \A k \in 1..Len(children) :
              ( ~children[k].isBackground /\ children'[k] # children[k] ) =>
                UNCHANGED <<backgroundProcesses, nextProcessId>>
       ]_vars

\* a foreground run has delivered its output after the close event and
\* the registry is as empty as before
C24_Witness ==
  /\ Len(children) = 1
  /\ ~children[1].isBackground /\ children[1].closed
  /\ children[1].result = [text |-> <<"o">>]
  /\ backgroundProcesses = <<>> /\ nextProcessId = 1

\* C25: a spawn failure ends the run with an error text and no exception
\* is left uncaught, for a foreground and for a background run.
C25_SpawnFailureIsText ==
  /\ ~fault
  /\ \A k \in 1..Len(children) :
       ( /\ ~children[k].isBackground /\ children[k].closed
         /\ children[k].code = -2 ) =>
         children[k].result = ErrorResult

(***************************************************************************)
(* Dispatch of the calls of a response                                     *)
(***************************************************************************)
RecognizedIndexes(run) ==
  { i \in 1..Len(run.calls) : run.calls[i].name \in RecognizedNames }

ObtainedEvents(run) == SelectSeq(run.log, LAMBDA e : e.event = "result")

DispatchedIndexes(run) ==
  { run.log[p].call : p \in { q \in 1..Len(run.log) :
                                 run.log[q].event = "dispatched" } }

\* the result is one that the tool of the call returns
ResultOf(call, result) ==
  IF call.name = "get_terminal_output"
    THEN "id" \in DOMAIN result /\ result.id = Parameter(call, "id")
  ELSE IF call.name = "run_in_terminal"
    THEN IF Parameter(call, "isBackground") = True
           THEN "id" \in DOMAIN result /\ result = Started(result.id)
           ELSE "id" \notin DOMAIN result /\ "tool" \notin DOMAIN result
  ELSE result = FileToolResult(call)

\* C26: in every run of processFunctionCalls a call is dispatched only
\* when every recognized call before it has its result, however late the
\* 'close' of a foreground command comes; the results are the blocks of
\* the results obtained, in the order of the calls, each the result of
\* its own call, and a run that has returned holds exactly one block for
\* each recognized call.
C26_CallOrdering ==
  \A d \in 1..Len(dispatches) :
    LET run      == dispatches[d]
        obtained == ObtainedEvents(run)
    IN /\ Len(run.results) = Len(obtained)
       /\ \A j \in 1..Len(obtained) :
            /\ run.results[j] = ResultBlock(obtained[j].result)
            /\ ResultOf(run.calls[obtained[j].call], obtained[j].result)
       /\ \A j, k \in 1..Len(obtained) :
            j < k => obtained[j].call < obtained[k].call
       /\ \A p \in 1..Len(run.log) :
            run.log[p].event = "dispatched" =>
              \A i \in RecognizedIndexes(run) :
                i < run.log[p].call =>
                  \E q \in 1..(p - 1) :
                    run.log[q].event = "result" /\ run.log[q].call = i
       /\ run.outcome # "running" =>
            { obtained[j].call : j \in 1..Len(obtained) }
              = RecognizedIndexes(run)

\* a run over a foreground command, an unknown name, a poll and a
\* background command has returned its three blocks
C26_Witness ==
  \E d \in 1..Len(dispatches) :
    /\ dispatches[d].outcome = "followUp"
    /\ Len(dispatches[d].calls) = 4
    /\ Len(dispatches[d].results) = 3
    /\ \E k \in 1..Len(children) :
         ~children[k].isBackground /\ children[k].closed

\* C27: a call whose name is not one of the eight tool names is passed
\* over: the loop does nothing for it, adds no block for it and does not
\* stop at it, and a run that has returned has dispatched every
\* recognized call before and after it.
C27_UnknownIgnored ==
  \A d \in 1..Len(dispatches) :
    LET run == dispatches[d]
    IN \A i \in (1..Len(run.calls)) \ RecognizedIndexes(run) :
         /\ \A p \in 1..Len(run.log) : run.log[p].call # i
         /\ run.pc # i
         /\ Len(run.results) <=
              Cardinality({ j \in RecognizedIndexes(run) : j < run.pc })
         /\ run.outcome # "running" =>
              DispatchedIndexes(run) = RecognizedIndexes(run)

\* a run with an unknown name between recognized calls has returned
C27_Witness ==
  \E d \in 1..Len(dispatches) :
    LET run == dispatches[d]
    IN /\ run.outcome # "running"
       /\ \E i \in (1..Len(run.calls)) \ RecognizedIndexes(run) :
            /\ \E j \in DispatchedIndexes(run) : j < i
            /\ \E j \in DispatchedIndexes(run) : j > i

\* C28: every recognized call that the loop has dispatched has its result
\* block, or is the foreground command the run is waiting for, whose
\* promise resolves with a text also when the shell cannot be spawned:
\* no run is left behind by an exception.
C28_DispatchEndsInText ==
  \A d \in 1..Len(dispatches) :
    LET run == dispatches[d]
    IN \A i \in DispatchedIndexes(run) :
         \/ \E j \in 1..Len(ObtainedEvents(run)) :
              /\ ObtainedEvents(run)[j].call = i
              /\ "text" \in DOMAIN ObtainedEvents(run)[j].result
         \/ /\ run.pc = i
            /\ run.awaiting \in 1..Len(children)
            /\ ~children[run.awaiting].closed
            /\ ~fault

BlankRequests ==
  Cardinality({ r \in 1..Len(requests) : requests[r].message = <<>> })

FollowUpRuns ==
  Cardinality({ d \in 1..Len(dispatches) :
                  dispatches[d].outcome = "followUp" })

Returns(d) ==
  /\ d \in 1..Len(dispatches')
  /\ dispatches'[d].outcome # "running"
  /\ d \in 1..Len(dispatches) => dispatches[d].outcome = "running"

\* what a step does when a run returns in it
ReturnStep ==
  \A d \in 1..(Len(dispatches) + 1) :
    Returns(d) =>
      IF dispatches'[d].results # <<>>
        THEN /\ dispatches'[d].outcome = "followUp"
             /\ conversationHistory' # <<>>
             /\ conversationHistory'[Len(conversationHistory')]
                  = Message("user", FunctionResults(dispatches'[d].results))
             /\ timers' = timers + 1
        ELSE /\ dispatches'[d].outcome = "prompt"
             /\ timers' = timers
             /\ requests' = requests

\* what a step does when a request is sent in it
RequestStep ==
  (Len(requests') > Len(requests)) =>
    LET request == requests'[Len(requests')]
    IN /\ requests' = Append(requests, request)
       /\ request.messages = conversationHistory'
       /\ IF request.message = <<>>
            THEN /\ timers' = timers - 1
                 /\ conversationHistory' = conversationHistory
            ELSE timers' = timers

\* C29: when a run returns results that are not empty, they are the
\* last message of the conversation and one timer is set; when it
\* returns no results, no timer is set and the prompt is shown.  A
\* request with a blank message is sent only by a timer, it sends the
\* conversation as it is, and the requests sent by timers and the timers
\* pending are as many as the runs that returned results.
C29_FollowUp ==
  /\ [](BlankRequests + timers = FollowUpRuns)
  /\ [][ReturnStep /\ RequestStep]_vars

\* a follow-up request has been sent with the results as its last
\* message, and another run has returned without results
C29_Witness ==
  /\ \E r \in 1..Len(requests) :
       /\ requests[r].message = <<>>
       /\ requests[r].messages # <<>>
       /\ \E d \in 1..Len(dispatches) :
            /\ dispatches[d].results # <<>>
            /\ requests[r].messages[Len(requests[r].messages)]
                 = Message("user", FunctionResults(dispatches[d].results))
  /\ \E d \in 1..Len(dispatches) : dispatches[d].outcome = "prompt"

FromNull == [st |-> Null, out |-> <<>>, err |-> FALSE]

\* a step that sends a request or clears the history drops the state
ResetStep ==
  ( \/ Len(requests') > Len(requests)
    \/ /\ Len(sinks') > Len(sinks)
       /\ sinks'[Len(sinks')].sink = "system" )
    => (streamState' = Null)

\* C30: a request leaves the stream state dropped, whatever it was, and
\* so does Ctrl+L; the lines of a response are segmented from the
\* initial state, not from the state the turn before ended in.
C30_TurnStartsPlain ==
  /\ [](upstream = "finish" =>
          streamState \in {Null, Feed(FromNull, chunks).st})
  /\ [][ResetStep]_vars

\* the second request has been sent after a response that ended inside
\* a thinking region
C30_Witness ==
  /\ Len(requests) = 2
  /\ upstream = "open"
  /\ streamState = Null
  /\ Clears = 0
  /\ \E h \in 1..Len(conversationHistory) :
       conversationHistory[h] =
         Message("assistant", Text(OpenThink \o <<"a">>))

(***************************************************************************)
(* File tools.  A path is the sequence of its segments below the working   *)
(* directory; fileSystem maps the paths that exist to what they are.       *)
(***************************************************************************)
\* number of segments of a path
MaxPath == 2

Names == { "d", "f" }
\* the paths whose segments above the last are "d"
Paths ==
  { p \in UNION { [1..n -> Names] : n \in 1..MaxPath } :
      \A i \in 1..(Len(p) - 1) : p[i] = "d" }
\* a parameter the call does not carry
Undefined == <<"undefined">>
Contents == { <<"x">>, <<"y">> }

Dir == [kind |-> "dir"]
File(content) == [kind |-> "file", content |-> content]

\* path.dirname: "." for a path of one segment
dirname(p) == SubSeq(p, 1, Len(p) - 1)

Prefixes(p) == { SubSeq(p, 1, n) : n \in 1..Len(p) }

existsSync(fs, p) == p = <<>> \/ p \in DOMAIN fs

IsDirectory(fs, p) == p = <<>> \/ (p \in DOMAIN fs /\ fs[p].kind = "dir")

\* fs.mkdirSync(dir, { recursive: true }): throws when a segment of the
\* path is a file
mkdirSync(fs, dir) ==
  IF \E q \in Prefixes(dir) : q \in DOMAIN fs /\ fs[q].kind = "file"
    THEN [threw |-> TRUE, fs |-> fs]
    ELSE [threw |-> FALSE,
          fs |-> [ q \in DOMAIN fs \cup Prefixes(dir) |->
                     IF q \in DOMAIN fs THEN fs[q] ELSE Dir ]]

\* fs.writeFileSync(filePath, content, 'utf8'): throws when the parent is
\* not a directory or the path is one
writeFileSync(fs, filePath, content) ==
  IF \/ ~IsDirectory(fs, dirname(filePath))
     \/ IsDirectory(fs, filePath)
    THEN [threw |-> TRUE, fs |-> fs]
    ELSE [threw |-> FALSE, fs |-> MapSet(fs, filePath, File(content))]

CreateError == "Error creating file: "
AlreadyExists == "Error: File already exists. Use replace_string_in_file to edit existing files."
Created == "File created successfully: "

\* variant: the test for an existing target is left out
createFileOverwriting(fs, filePath, content) ==
  IF filePath = Undefined THEN [text |-> CreateError, fs |-> fs]
  ELSE
    LET dir  == dirname(filePath)
        made == IF ~existsSync(fs, dir) THEN mkdirSync(fs, dir)
                                        ELSE [threw |-> FALSE, fs |-> fs]
        written == writeFileSync(made.fs, filePath, content)
    IN IF made.threw THEN [text |-> CreateError, fs |-> fs]
       ELSE IF written.threw THEN [text |-> CreateError, fs |-> made.fs]
       ELSE [text |-> Created, fs |-> written.fs]

\* createFile(filePath, content): the text it returns and the file system
\* it leaves; path.dirname throws for a path that is not a string
createFile(fs, filePath, content) ==
  IF filePath = Undefined THEN [text |-> CreateError, fs |-> fs]
  ELSE
    LET dir  == dirname(filePath)
        made == IF ~existsSync(fs, dir) THEN mkdirSync(fs, dir)
                                        ELSE [threw |-> FALSE, fs |-> fs]
        written == writeFileSync(made.fs, filePath, content)
    IN IF made.threw THEN [text |-> CreateError, fs |-> fs]
       ELSE IF existsSync(made.fs, filePath)
         THEN [text |-> AlreadyExists, fs |-> made.fs]
       ELSE IF written.threw THEN [text |-> CreateError, fs |-> made.fs]
       ELSE [text |-> Created, fs |-> written.fs]

\* the create_file branch of processFunctionCalls:
\* content = call.parameters.content || ''
CreateFile(filePath, content) ==
  /\ ~fault
  /\ LET finalContent == IF content = Undefined THEN <<>> ELSE content
         r == createFile(fileSystem, filePath, finalContent)
     IN /\ fileSystem' = r.fs
        /\ fileResult' = [ filePath |-> filePath, content |-> finalContent,
                            text |-> r.text, before |-> fileSystem ]
  /\ UNCHANGED <<segVars, codec, regVars, turnVars, keyVars>>

NextFiles ==
  \E filePath \in Paths \cup {Undefined}, content \in Contents \cup {Undefined} :
    CreateFile(filePath, content)

SpecFiles == Init /\ [][NextFiles]_vars

\* no segment above the path is a file
Creatable(fs, filePath) ==
  \A q \in Prefixes(dirname(filePath)) :
    q \in DOMAIN fs => fs[q].kind = "dir"

\* C31: when the target of create_file does not exist (and no segment
\* above it is a file), the call leaves every segment above it a
\* directory and the target a file with the given content, changes
\* nothing else and returns the success text; when the target exists,
\* the call returns the error text and the file system is as it was.
C31_CreateOrRefuse ==
  fileResult # Null /\ fileResult.filePath # Undefined =>
    LET before == fileResult.before
        target == fileResult.filePath
    IN IF target \in DOMAIN before
         THEN /\ fileResult.text = AlreadyExists
              /\ fileSystem = before
         ELSE Creatable(before, target) =>
                /\ fileResult.text = Created
                /\ DOMAIN fileSystem = DOMAIN before \cup Prefixes(target)
                /\ fileSystem[target] = File(fileResult.content)
                /\ \A q \in Prefixes(dirname(target)) : fileSystem[q] = Dir
                /\ \A q \in DOMAIN before : fileSystem[q] = before[q]

\* a file was created below a directory that was missing, and a later
\* call on an existing file with another content was refused
C31_Witness ==
  /\ fileResult # Null
  /\ fileResult.text = AlreadyExists
  /\ fileResult.filePath \in DOMAIN fileSystem
  /\ Len(fileResult.filePath) = 2
  /\ fileSystem[fileResult.filePath].kind = "file"
  /\ fileSystem[fileResult.filePath].content # fileResult.content

\* C32: processing a chunk returns: the chain of recursive calls of
\* processStreamContent on the text after a marker is never longer than
\* MaxDepth, which no chunk with at most MaxDepth markers needs to exceed.
C32_ChunkTerminates == ~stackOverflow

(***************************************************************************)
(* Responses with a function-call block inside a thinking region           *)
(***************************************************************************)
ThinkChunks ==
  { OpenThink \o OpenFC,
    BodyRun \o CloseFC \o CloseThink,
    OpenFC,
    BodyRun \o CloseFC,
    <<"a">> }

NextThink ==
  \/ \E c \in ThinkChunks : Chunk(c)
  \/ FinishReason
  \/ Done
  \/ End

SpecThink == Init /\ [][NextThink]_vars

\* C33: a run of processFunctionCalls has calls only when the segmenter
\* has written a function-call block, and never when the only blocks of
\* the response were written as thinking.
C33_DispatchedWereShown ==
  \A d \in 1..Len(dispatches) :
    dispatches[d].calls # <<>> =>
      \E i \in 1..Len(sinks) : sinks[i].sink = "functionCall"

AssistantMessages ==
  Cardinality({ h \in 1..Len(conversationHistory) :
                  conversationHistory[h].role = "assistant" })

\* C34: the conversation holds at most one assistant message for each
\* request, whatever the finish_reason chunk, the [DONE] line and the end
\* event of the response did and in whatever order.
C34_ResponseOnce == AssistantMessages <= Len(requests)

\* C35: once the response has ended with a finish_reason chunk, a [DONE]
\* line or the end event, the calls of its closed blocks have been handed
\* to exactly one run of processFunctionCalls; in particular a response
\* with calls has not ended without a run and without a prompt.
C35_DispatchedOnce ==
  ( /\ upstream \in {"finish", "done", "end"}
    /\ extractFunctionCalls(assistantResponse) # <<>> ) =>
      /\ Len(dispatches) = 1
      /\ dispatches[1].calls = extractFunctionCalls(assistantResponse)
      /\ Len(dispatches) >= 1 \/ prompts >= 1

(***************************************************************************)
(* The user does not wait for the prompt: Enter at any time.  What the     *)
(* response of the request before still delivers after a new request is    *)
(* not followed.                                                           *)
(***************************************************************************)
NextOverlap ==
  \/ \E c \in ThinkChunks : Chunk(c)
  \/ FinishReason
  \/ \E k \in 1..MaxTurns : Close(k, 0)
  \/ \E input \in UserInputs : Enter(input)
  \/ FollowUp

SpecOverlap == Init /\ [][NextOverlap]_vars

Streaming == upstream = "open" /\ chunks # <<>>

Running == \E d \in 1..Len(dispatches) : dispatches[d].outcome = "running"

\* C36: a request is sent only when no response is being read and no
\* run of processFunctionCalls is under way, and the stream state is not
\* dropped while the chunks of a response are arriving.
C36_OneTurnOutstanding ==
  [][ /\ (Len(requests') > Len(requests)) => (~Streaming /\ ~Running)
      /\ (Streaming /\ streamState # Null) => (streamState' # Null)
    ]_vars

OnlySystem ==
  \A h \in 1..Len(conversationHistory) :
    conversationHistory[h].role = "system"

\* C37: once the conversation holds only the system messages, the next
\* change of it is the message of the user, and no request is sent
\* before that message.
C37_ClearedStaysCleared ==
  [][ OnlySystem =>
        \/ /\ conversationHistory' = conversationHistory
           /\ requests' = requests
        \/ /\ Len(requests') > Len(requests)
           /\ requests'[Len(requests')].message # <<>>
    ]_vars

(***************************************************************************)
(* The keyboard: handleKeypress with its paste detection.  A key is the    *)
(* string and the name readline reports for it; rapid says whether it      *)
(* arrived less than pasteThreshold after the key before.  The keys are a  *)
(* letter, Enter ("\r", named return) and line feed ("\n", named enter),   *)
(* none with a modifier.  pasteTimeout says whether the timer set by       *)
(* handlePossiblePaste is pending; lastKeypressTime is 0 until the first   *)
(* key and 1, the time of the key before, from then on: the first key is   *)
(* never rapid.                                                            *)
(***************************************************************************)
\* number of characters on the input line and in the paste buffer together
MaxInput == 3
\* number of prompts shown for Enter on a blank line
MaxPrompts == 1

Keys == { [str |-> "a",  name |-> "a"],
          [str |-> "\r", name |-> "return"],
          [str |-> "\n", name |-> "enter"] }

Keyboard == [ currentInput |-> currentInput, cursorPos |-> cursorPos,
              isPasting |-> isPasting, pasteBuffer |-> pasteBuffer,
              pasteTimeout |-> pasteTimeout ]

insertAtCursor(k, text) ==
  [k EXCEPT !.currentInput = SubSeq(k.currentInput, 1, k.cursorPos) \o text
                               \o SubSeq(k.currentInput, k.cursorPos + 1,
                                         Len(k.currentInput)),
            !.cursorPos = k.cursorPos + Len(text)]

handlePossiblePaste(k, char) ==
  LET started == IF ~k.isPasting
                   THEN [k EXCEPT !.isPasting = TRUE, !.pasteBuffer = <<>>]
                   ELSE k
  IN IF char = "\r"
       THEN started
       ELSE [started EXCEPT !.pasteBuffer = Append(@, char),
                            !.pasteTimeout = TRUE]

finalizePaste(k) ==
  IF ~k.isPasting \/ k.pasteBuffer = <<>>
    THEN k
    ELSE [insertAtCursor(k, k.pasteBuffer) EXCEPT !.isPasting = FALSE,
                                                  !.pasteBuffer = <<>>,
                                                  !.pasteTimeout = FALSE]

SetKeyboard(k) ==
  /\ currentInput' = k.currentInput
  /\ cursorPos' = k.cursorPos
  /\ isPasting' = k.isPasting
  /\ pasteBuffer' = k.pasteBuffer
  /\ pasteTimeout' = k.pasteTimeout

handleKeypress(key, rapid) ==
  /\ ~fault
  /\ Len(currentInput) + Len(pasteBuffer) < MaxInput
  /\ rapid => lastKeypressTime # 0
  /\ lastKeypressTime' = 1
  /\ IF rapid
       THEN /\ SetKeyboard(handlePossiblePaste(Keyboard, key.str))
            /\ UNCHANGED <<segVars, codec, regVars, turnVars, fsVars>>
       ELSE LET k == IF isPasting THEN finalizePaste(Keyboard) ELSE Keyboard
            IN IF key.name \in {"return", "enter"} /\ ~k.isPasting
                 THEN IF trim(k.currentInput) # <<>>
                        THEN /\ sendMessage(k.currentInput)
                             /\ SetKeyboard([k EXCEPT !.currentInput = <<>>,
                                                      !.cursorPos = 0])
                             /\ UNCHANGED timers
                        ELSE /\ prompts < MaxPrompts
                             /\ prompts' = prompts + 1
                             /\ SetKeyboard(k)
                             /\ UNCHANGED <<segVars, codec, regVars, fsVars,
                                            conversationHistory, dispatches,
                                            timers, requests>>
                 ELSE /\ SetKeyboard(insertAtCursor(k, <<key.str>>))
                      /\ UNCHANGED <<segVars, codec, regVars, turnVars,
                                     fsVars>>

\* the timer set by handlePossiblePaste fires
PasteTimer ==
  /\ ~fault
  /\ pasteTimeout
  /\ SetKeyboard([finalizePaste(Keyboard) EXCEPT !.pasteTimeout = FALSE])
  /\ UNCHANGED lastKeypressTime
  /\ UNCHANGED <<segVars, codec, regVars, turnVars, fsVars>>

NextPaste ==
  \/ \E key \in Keys, rapid \in BOOLEAN : handleKeypress(key, rapid)
  \/ PasteTimer

SpecPaste == Init /\ [][NextPaste]_vars

\* C38: while isPasting is true the timer that runs finalizePaste is
\* pending, so paste mode ends without another key.
C38_PasteEnds == isPasting => pasteTimeout

====
